---------------------------- MODULE Spec2Model ----------------------------
(***************************************************************************)
(* The node-graph canvas of the OSland IDE extensions.                     *)
(*                                                                         *)
(* Two implementations of the class Canvas are modelled: the browser       *)
(* extension's (extensions/browser/src/canvas.js, wired to the component   *)
(* panel and the property panel by OSlandIDE) and the VSCode webview's     *)
(* (the canvas webview script).  The variable host says which of the two   *)
(* classes the canvas is an instance of; the fields the two classes share  *)
(* are the same variables.                                                 *)
(*                                                                         *)
(* JavaScript objects are references.  Node objects live in objs,          *)
(* component objects in comps, the arrays held in this.nodes and           *)
(* this.connections in arrN and arrC; the fields hold indices into these.  *)
(* 0 is null.  An object no field, array or document refers to any more    *)
(* is collected (Gc).                                                      *)
(***************************************************************************)
EXTENDS Integers, Sequences, FiniteSets, TLC

\* Bounds of the model.
MaxNodes == 3          \* node objects alive at one time
MaxConns == 2          \* connections in one array
MaxGraph == 2          \* nodes of a graph that is edited with the pointer and the panels
MaxWires == 1          \* connections of such a graph

\* Program constants.
NODE_W == 100
NODE_H == 50
PORT_TOLERANCE == 5
IDE_DROP_X == 100
IDE_DROP_Y == 100

VARIABLES
    host,               \* "browser" | "vscode" | "intellij": the class of this canvas
    nodes,              \* this.nodes: index of an array of arrN
    connections,        \* this.connections: index of an array of arrC
    selectedNode,       \* this.selectedNode: node reference or 0
    draggedNode,        \* this.draggedNode (VSCode): node reference or 0
    isDragging,         \* this.isDragging (browser)
    dragOffset,         \* this.dragOffset
    isConnecting,       \* this.isConnecting
    connectingFrom,     \* this.connectingFrom: <<>> (null) or <<[nodeId, portId]>>
    mousePos,           \* this.mousePos
    selectedTool,       \* this.selectedTool (VSCode)
    selectedComponent,  \* this.selectedComponent (VSCode): component reference or 0
    components,         \* this.components (VSCode): the catalog the init message brought
    objs,               \* heap: node objects
    comps,              \* heap: component objects
    arrN,               \* heap: arrays of node references
    arrC,               \* heap: arrays of connections
    panelNode,          \* PropertyPanel.selectedNode (browser): node reference or 0
    projectName,        \* OSlandIDE.projectName (browser)
    doc,                \* the project document last returned by getProjectData: <<>> or <<[nodes, connections]>>
    thrown,             \* the exception the last handler ended with, or "none"
    storage,            \* chrome.storage.local.oslandProject: <<>> or <<document>>
    notice,             \* the notification shown last by the IDE: "", "success" or "error"
    panelView,          \* PropertyPanelWebviewProvider._view is set (VSCode): the property view is open
    vpanel,             \* PropertyPanel.selectedNode (VSCode): <<>> (null) or <<node>>, a copy
    toPanel,            \* node-selected messages on their way to the property panel
    toCanvas,           \* property-changed messages on their way to the canvas
    oslandProcess,      \* the kernel process the service's handle refers to, 0 for null
    procs,              \* the state of every kernel process spawned so far, by process number
    outputWriter,       \* IntelliJ: the process whose stdin the PrintWriter wraps, 0 for null
    stdin,              \* the lines written to kernel processes' standard input, in order
    reply,              \* how the last sendCommand ended
    oslandKernel,       \* background script: oslandKernel is "null", "constructed" or "initialized"
    kernelLog,          \* the calls made on OSland.Kernel that returned: "new", "initialize", "run", "build"
    answers             \* the sendResponse calls made for the message the background script handled last

vars == <<host, nodes, connections, selectedNode, draggedNode, isDragging,
          dragOffset, isConnecting, connectingFrom, mousePos, selectedTool,
          selectedComponent, components, objs, comps, arrN, arrC, panelNode,
          projectName, doc, thrown, storage, notice, panelView, vpanel, toPanel, toCanvas, oslandProcess, procs, outputWriter, stdin, reply, oslandKernel, kernelLog, answers>>

-----------------------------------------------------------------------------
(* Values *)

Pt(px, py) == [x |-> px, y |-> py]

NoNode == [id |-> "", component |-> 0, x |-> 0, y |-> 0]

NoComp == [id |-> "", name |-> "", type |-> "", category |-> "", color |-> "",
           inputs |-> <<>>, outputs |-> <<>>, has |-> {}]

\* A component record; has lists the optional properties the object carries
\* (a property not in has is undefined).
Comp(i, n, t, cat, col, ins, outs, h) ==
    [id |-> i, name |-> n, type |-> t, category |-> cat, color |-> col,
     inputs |-> ins, outputs |-> outs, has |-> h]

\* CanvasWebviewProvider._getDefaultComponents: the catalog of the init message.
DefaultComponents ==
    << Comp("cpu", "CPU", "processor", "", "#3498db", <<"in">>, <<"out">>,
            {"inputs", "outputs"}),
       Comp("memory", "Memory", "memory", "", "#2ecc71", <<"in">>, <<"out">>,
            {"inputs", "outputs"}) >>

\* ComponentPanel.loadComponents (browser) and
\* ComponentPanelWebviewProvider._getComponentLibrary (VSCode): the catalog the
\* component panels select from.  Its entries carry no inputs and no outputs.
ComponentLibrary ==
    << Comp("cpu", "CPU", "processor", "processor", "#3498db", <<>>, <<>>,
            {"category"}),
       Comp("memory", "Memory", "memory", "memory", "#2ecc71", <<>>, <<>>,
            {"category"}) >>

CatalogSize == Len(ComponentLibrary)

NodeRefs == 1..MaxNodes
CompRefs == 1..(MaxNodes + CatalogSize)
ArrRefs  == 1..2

\* The ids `node-${Date.now()}-${Math.random()...}` can take: whatever the clock and
\* the random generator give.
NodeIdSeq == <<"node-a", "node-b", "node-c">>
ConnIdSeq == <<"conn-a", "conn-b">>
NodeIds == {NodeIdSeq[i] : i \in 1..Len(NodeIdSeq)}
ConnIds == {ConnIdSeq[i] : i \in 1..Len(ConnIdSeq)}


-----------------------------------------------------------------------------
(* The state as one record, so that a method is a function from states to   *)
(* states.                                                                  *)

Cur ==
    [host |-> host, nodes |-> nodes, connections |-> connections,
     selectedNode |-> selectedNode, draggedNode |-> draggedNode,
     isDragging |-> isDragging, dragOffset |-> dragOffset,
     isConnecting |-> isConnecting, connectingFrom |-> connectingFrom,
     mousePos |-> mousePos, selectedTool |-> selectedTool,
     selectedComponent |-> selectedComponent, components |-> components,
     objs |-> objs, comps |-> comps, arrN |-> arrN, arrC |-> arrC,
     panelNode |-> panelNode, projectName |-> projectName, doc |-> doc,
     thrown |-> thrown, storage |-> storage, notice |-> notice, panelView |-> panelView, vpanel |-> vpanel, toPanel |-> toPanel, toCanvas |-> toCanvas, oslandProcess |-> oslandProcess, procs |-> procs, outputWriter |-> outputWriter, stdin |-> stdin, reply |-> reply, oslandKernel |-> oslandKernel, kernelLog |-> kernelLog, answers |-> answers]

Min(S) == CHOOSE m \in S : \A k \in S : m <= k

Range(q) == {q[i] : i \in 1..Len(q)}

\* The array this.nodes / this.connections refers to.
Nodes(s) == s.arrN[s.nodes]
Conns(s) == s.arrC[s.connections]

\* The component object of node object r.
CompOf(s, r) == s.comps[s.objs[r].component]

\* Array slots the held document refers to.
DocArrN(s) == IF s.doc = <<>> THEN {} ELSE {s.doc[1].nodes} \ {0}
DocArrC(s) == IF s.doc = <<>> THEN {} ELSE {s.doc[1].connections} \ {0}

LiveNodes(s) ==
    (UNION {Range(s.arrN[a]) : a \in {s.nodes} \cup DocArrN(s)}
        \cup {s.selectedNode, s.draggedNode, s.panelNode}) \ {0}

LiveComps(s) ==
    ((IF s.host = "browser" THEN 1..CatalogSize ELSE {})
        \cup {s.objs[r].component : r \in LiveNodes(s)}
        \cup {s.selectedComponent}) \ {0}

\* Garbage collection: what nothing refers to does not exist.
Gc(s) ==
    [s EXCEPT
        !.arrN = [a \in ArrRefs |->
                    IF a \in {s.nodes} \cup DocArrN(s) THEN s.arrN[a] ELSE <<>>],
        !.arrC = [a \in ArrRefs |->
                    IF a \in {s.connections} \cup DocArrC(s) THEN s.arrC[a] ELSE <<>>],
        !.objs = [r \in NodeRefs |->
                    IF r \in LiveNodes(s) THEN s.objs[r] ELSE NoNode],
        !.comps = [r \in CompRefs |->
                    IF r \in LiveComps(s) THEN s.comps[r] ELSE NoComp]]

RECURSIVE Distinct(_)
\* q without its repeated elements, first occurrences kept.
Distinct(q) ==
    IF q = <<>> THEN <<>>
    ELSE LET h == Distinct(SubSeq(q, 1, Len(q) - 1))
             e == q[Len(q)]
         IN IF e \in Range(h) THEN h ELSE Append(h, e)

IndexOf(q, e) == CHOOSE i \in 1..Len(q) : q[i] = e

\* The array of the held document, when it is not the canvas's own.
DocNodes(s) == IF DocArrN(s) \ {s.nodes} = {} THEN <<>> ELSE s.arrN[s.doc[1].nodes]
DocConns(s) == IF DocArrC(s) \ {s.connections} = {} THEN <<>>
               ELSE s.arrC[s.doc[1].connections]

\* The live node objects and the live component objects, in the order in
\* which the fields of the canvas reach them.
NodeOrder(s) ==
    Distinct(SelectSeq(Nodes(s) \o DocNodes(s)
                         \o <<s.selectedNode, s.draggedNode, s.panelNode>>,
                       LAMBDA r : r # 0))
CompOrder(s) ==
    LET no == NodeOrder(s)
    IN Distinct(SelectSeq(
           (IF s.host = "browser" THEN [k \in 1..CatalogSize |-> k] ELSE <<>>)
             \o [i \in 1..Len(no) |-> s.objs[no[i]].component]
             \o <<s.selectedComponent>>,
           LAMBDA r : r # 0))

\* An address has no meaning of its own: the heap is kept with the live
\* objects at the lowest addresses, in the order above, and the canvas's own
\* arrays in slot 1.
Compact(s) ==
    LET no == NodeOrder(s)
        co == CompOrder(s)
        rn(r) == IF r = 0 THEN 0 ELSE IndexOf(no, r)
        rc(r) == IF r = 0 THEN 0 ELSE IndexOf(co, r)
        ra(a, own) == IF a = 0 THEN 0 ELSE IF a = own THEN 1 ELSE 2
        dn == DocNodes(s)
    IN [s EXCEPT
          !.nodes = 1,
          !.connections = 1,
          !.arrN = [a \in ArrRefs |->
                      IF a = 1 THEN [i \in 1..Len(Nodes(s)) |-> rn(Nodes(s)[i])]
                      ELSE [i \in 1..Len(dn) |-> rn(dn[i])]],
          !.arrC = [a \in ArrRefs |-> IF a = 1 THEN Conns(s) ELSE DocConns(s)],
          !.objs = [r \in NodeRefs |->
                      IF r <= Len(no)
                      THEN [s.objs[no[r]] EXCEPT !.component = rc(@)]
                      ELSE NoNode],
          !.comps = [r \in CompRefs |->
                      IF r <= Len(co) THEN s.comps[co[r]] ELSE NoComp],
          !.selectedNode = rn(@),
          !.draggedNode = rn(@),
          !.panelNode = rn(@),
          !.selectedComponent = rc(@),
          !.doc = IF s.doc = <<>> THEN <<>>
                  ELSE <<[nodes |-> ra(s.doc[1].nodes, s.nodes),
                          connections |-> ra(s.doc[1].connections, s.connections)]>>]

FreeNodes(s) == {r \in NodeRefs : s.objs[r] = NoNode}
FreeComps(s) == {r \in CompRefs : s.comps[r] = NoComp}

\* The slot a new array of the canvas goes to: the canvas's own slot, unless
\* the held document still refers to that array.
NewArrN(s) == IF s.nodes \in DocArrN(s) THEN 3 - s.nodes ELSE s.nodes
NewArrC(s) == IF s.connections \in DocArrC(s) THEN 3 - s.connections ELSE s.connections

\* this.nodes = <a new array q>
SetNodes(s, q) ==
    LET a == NewArrN(s) IN [s EXCEPT !.arrN[a] = q, !.nodes = a]
SetConns(s, q) ==
    LET a == NewArrC(s) IN [s EXCEPT !.arrC[a] = q, !.connections = a]

\* this.nodes.push(r): the array is changed in place.
PushNode(s, r) == [s EXCEPT !.arrN[s.nodes] = Append(@, r)]
PushConn(s, c) == [s EXCEPT !.arrC[s.connections] = Append(@, c)]

Conn(i, fn, fp, tn, tp) ==
    [id |-> i, fromNode |-> fn, fromPort |-> fp, toNode |-> tn, toPort |-> tp]

Throw(s, e) == [s EXCEPT !.thrown = e]
Begin(s) == [s EXCEPT !.thrown = "none"]

\* node.component.inputs.length / outputs.length raise a TypeError on a component
\* that carries no such list.
HasPorts(c) == {"inputs", "outputs"} \subseteq c.has

\* draw(): drawConnections, drawNodes and drawConnectingLine read
\* component.inputs and component.outputs of the nodes of this.nodes.
drawThrows(s) == \E i \in 1..Len(Nodes(s)) : ~HasPorts(CompOf(s, Nodes(s)[i]))

draw(s) == IF drawThrows(s) THEN Throw(s, "TypeError") ELSE s

\* this.nodes.find(n => n.id === nodeId)
findNode(s, nodeId) ==
    LET q == Nodes(s)
        hit == {i \in 1..Len(q) : s.objs[q[i]].id = nodeId}
    IN IF hit = {} THEN 0 ELSE q[Min(hit)]

\* One turn of the loop of drawConnections: the connection gets a line, is
\* skipped, or reading the port list of an endpoint raises a TypeError.
drawConnection(s, c) ==
    LET fromNode == findNode(s, c.fromNode)
        toNode   == findNode(s, c.toNode)
    IN IF fromNode # 0 /\ toNode # 0
       THEN IF "outputs" \notin CompOf(s, fromNode).has THEN "throw"
            ELSE IF "inputs" \notin CompOf(s, toNode).has THEN "throw"
            ELSE IF /\ c.fromPort \in Range(CompOf(s, fromNode).outputs)
                    /\ c.toPort \in Range(CompOf(s, toNode).inputs)
                 THEN "line"
                 ELSE "skip"
       ELSE "skip"

\* drawConnections: the connections that get a line, and whether the loop
\* raised; nothing after the turn that raised is drawn.
drawConnections(s) ==
    LET q == Conns(s)
        raisedAt == {i \in 1..Len(q) : drawConnection(s, q[i]) = "throw"}
    IN [lines  |-> {i \in 1..Len(q) :
                      /\ drawConnection(s, q[i]) = "line"
                      /\ \A j \in raisedAt : i < j},
        raised |-> raisedAt # {}]

\* getNodeAtPosition that leaves out the right and the bottom edge.
nodeAtExclusive(s, pos) ==
    LET q == Nodes(s)
        hit == {i \in 1..Len(q) :
                  /\ pos.x >= s.objs[q[i]].x
                  /\ pos.x < s.objs[q[i]].x + NODE_W
                  /\ pos.y >= s.objs[q[i]].y
                  /\ pos.y < s.objs[q[i]].y + NODE_H}
    IN IF hit = {} THEN 0 ELSE q[Min(hit)]

\* getNodeAtPosition: the first node of this.nodes whose box holds pos.
getNodeAtPosition(s, pos) ==
    LET q == Nodes(s)
        hit == {i \in 1..Len(q) :
                  /\ pos.x >= s.objs[q[i]].x
                  /\ pos.x <= s.objs[q[i]].x + NODE_W
                  /\ pos.y >= s.objs[q[i]].y
                  /\ pos.y <= s.objs[q[i]].y + NODE_H}
    IN IF hit = {} THEN 0 ELSE q[Min(hit)]

-----------------------------------------------------------------------------
(* The browser extension: class Canvas (canvas.js).  The listeners are the  *)
(* ones OSlandIDE.setupInterPanelCommunication registers.                   *)

\* emit('nodeSelected', node): the IDE's listener calls
\* propertyPanel.setSelectedNode(node).
emitNodeSelected(s, r) == [s EXCEPT !.panelNode = r]

\* handleMouseDown that sets isDragging before it looks for a node.
mouseDownAlwaysDrags(s, p) ==
    LET s1 == [Begin(s) EXCEPT !.mousePos = p, !.isDragging = TRUE]
        clickedNode == getNodeAtPosition(s1, p)
    IN IF clickedNode # 0
       THEN [s1 EXCEPT !.selectedNode = clickedNode,
                       !.dragOffset = Pt(p.x - s.objs[clickedNode].x,
                                         p.y - s.objs[clickedNode].y)]
       ELSE s1

B_handleMouseDown(s, p) ==
    LET s1 == [Begin(s) EXCEPT !.mousePos = p]
        clickedNode == getNodeAtPosition(s1, p)
    IN IF clickedNode # 0
       THEN [s1 EXCEPT !.isDragging = TRUE,
                       !.selectedNode = clickedNode,
                       !.dragOffset = Pt(p.x - s.objs[clickedNode].x,
                                         p.y - s.objs[clickedNode].y)]
       ELSE s1

B_handleMouseMove(s, p) ==
    LET s1 == [Begin(s) EXCEPT !.mousePos = p]
        s2 == IF s1.isDragging /\ s1.selectedNode # 0
              THEN draw([s1 EXCEPT
                          !.objs[s1.selectedNode].x = p.x - s1.dragOffset.x,
                          !.objs[s1.selectedNode].y = p.y - s1.dragOffset.y])
              ELSE s1
    IN IF s2.thrown = "none" /\ s2.isConnecting /\ s2.connectingFrom # <<>>
       THEN draw(s2)
       ELSE s2

B_handleMouseUp(s) ==
    [Begin(s) EXCEPT !.isDragging = FALSE,
                     !.isConnecting = FALSE,
                     !.connectingFrom = <<>>]

B_handleClick(s, p) ==
    LET s1 == [Begin(s) EXCEPT !.mousePos = p]
        clickedNode == getNodeAtPosition(s1, p)
        s2 == IF ~s1.isDragging
              THEN emitNodeSelected([s1 EXCEPT !.selectedNode = clickedNode],
                                    clickedNode)
              ELSE s1
    IN draw(s2)

\* addNode(component, x, y); id is the generated id, r the new object.
B_addNode(s, component, px, py, id) ==
    LET r  == Min(FreeNodes(s))
        s1 == [Begin(s) EXCEPT
                 !.objs[r] = [id |-> id, component |-> component,
                              x |-> px, y |-> py]]
        s2 == [PushNode(s1, r) EXCEPT !.selectedNode = r]
    IN draw(s2)     \* emit('nodeAdded') has no listener

\* removeNode without its cascade to the connections.
removeNodeOnly(s, nodeId) ==
    LET s1 == SetNodes(Begin(s),
                  SelectSeq(Nodes(s), LAMBDA r : s.objs[r].id # nodeId))
        s2 == IF s1.selectedNode # 0 /\ s1.objs[s1.selectedNode].id = nodeId
              THEN emitNodeSelected([s1 EXCEPT !.selectedNode = 0], 0)
              ELSE s1
    IN draw(s2)

B_removeNode(s, nodeId) ==
    LET s1 == SetNodes(Begin(s),
                  SelectSeq(Nodes(s), LAMBDA r : s.objs[r].id # nodeId))
        s2 == SetConns(s1,
                  SelectSeq(Conns(s), LAMBDA c : c.fromNode # nodeId
                                                 /\ c.toNode # nodeId))
        s3 == IF s2.selectedNode # 0 /\ s2.objs[s2.selectedNode].id = nodeId
              THEN emitNodeSelected([s2 EXCEPT !.selectedNode = 0], 0)
              ELSE s2
    IN draw(s3)

B_addConnection(s, id, fromNodeId, fromPort, toNodeId, toPort) ==
    draw(PushConn(Begin(s), Conn(id, fromNodeId, fromPort, toNodeId, toPort)))

\* component[property] = value
SetProp(c, property, value) ==
    CASE property = "name"    -> [c EXCEPT !.name = value]
      [] property = "color"   -> [c EXCEPT !.color = value]
      [] property = "inputs"  -> [c EXCEPT !.inputs = value, !.has = @ \cup {"inputs"}]
      [] property = "outputs" -> [c EXCEPT !.outputs = value, !.has = @ \cup {"outputs"}]
      [] OTHER                -> c

B_updateNodeProperty(s, nodeId, property, value) ==
    LET node == findNode(s, nodeId)
    IN IF node # 0
       THEN draw([Begin(s) EXCEPT
                    !.comps[s.objs[node].component] = SetProp(@, property, value)])
       ELSE Begin(s)

\* getProjectData(): the document holds the canvas's own arrays.
B_getProjectData(s) ==
    [Begin(s) EXCEPT !.doc = <<[nodes |-> s.nodes, connections |-> s.connections]>>]

\* loadProjectData(projectData); d.nodes and d.connections are array slots, 0 when
\* the document has no such field.
B_loadProjectData(s, d) ==
    LET s1 == IF d.nodes # 0 THEN [Begin(s) EXCEPT !.nodes = d.nodes] ELSE Begin(s)
        s2 == IF d.connections # 0 THEN [s1 EXCEPT !.connections = d.connections]
              ELSE s1
    IN draw(s2)

-----------------------------------------------------------------------------
(* Project documents that arrive from outside (parsed JSON): every array    *)
(* and every object of such a document is a new one.  <<>> is a missing     *)
(* field, <<v>> a field of value v.  A document holds at most one node.     *)

LitNode == [id |-> "node-a", component |-> DefaultComponents[1], x |-> 100, y |-> 100]

LitDocs ==
    { [name |-> "",  nodes |-> <<>>,               connections |-> <<>>],
      [name |-> "P", nodes |-> << <<>> >>,         connections |-> << <<>> >>],
      [name |-> "P", nodes |-> << <<LitNode>> >>,  connections |-> <<>>],
      [name |-> "",  nodes |-> <<>>,               connections |-> << <<>> >>],
      [name |-> "P", nodes |-> << <<LitNode>> >>,
       connections |-> << <<Conn("conn-a", "node-a", "out", "node-b", "in")>> >>] }

\* The state with the objects and arrays of document L allocated, and the
\* document as the array slots it holds (0: no such field).  The arrays take
\* the slots the canvas gives up when it loads the document.
Materialise(s, L) ==
    LET a  == NewArrN(s)
        b  == NewArrC(s)
        s1 == IF L.nodes # <<>>
              THEN Gc([s EXCEPT !.arrN[a] = <<>>, !.nodes = a])
              ELSE s
        r  == Min(FreeNodes(s1))
        cr == Min(FreeComps(s1))
        s2 == IF L.nodes # <<>> /\ L.nodes[1] # <<>>
              THEN [s1 EXCEPT
                      !.comps[cr] = L.nodes[1][1].component,
                      !.objs[r] = [L.nodes[1][1] EXCEPT !.component = cr],
                      !.arrN[a] = <<r>>]
              ELSE s1
        s3 == IF L.connections # <<>>
              THEN [s2 EXCEPT !.arrC[b] = L.connections[1]]
              ELSE s2
    IN [st |-> [s3 EXCEPT !.nodes = s.nodes],
        d  |-> [nodes |-> IF L.nodes # <<>> THEN a ELSE 0,
                connections |-> IF L.connections # <<>> THEN b ELSE 0]]

\* Whether document L can be allocated within the bounds.
CanMaterialise(s, L) ==
    IF L.nodes = <<>> THEN TRUE
    ELSE IF L.nodes[1] = <<>> THEN TRUE
    ELSE LET s1 == Gc([s EXCEPT !.arrN[NewArrN(s)] = <<>>, !.nodes = NewArrN(s)])
         IN Cardinality(LiveNodes(s1)) < MaxGraph /\ FreeComps(s1) # {}

B_loadLiteral(s, L) ==
    LET m == Materialise(s, L) IN B_loadProjectData(m.st, m.d)

-----------------------------------------------------------------------------
(* The browser extension: OSlandIDE (content.js) and PropertyPanel.         *)

\* this.canvas.exportNodes(), clear(), importNode(), updateNode() and
\* updateNodePosition() are not methods of Canvas: calling them raises a TypeError.
NotAFunction(s) == Throw(s, "TypeError")

I_exportProjectData(s) == NotAFunction(Begin(s))

I_importProjectData(s, L) ==
    NotAFunction([Begin(s) EXCEPT
        !.projectName = IF L.name # "" THEN L.name ELSE "Untitled Project"])

\* The IDE's listener of the property panel's 'projectNameChanged'.
I_projectNameChanged(s, name) == [Begin(s) EXCEPT !.projectName = name]

\* newProject(), the user confirming
I_newProject(s) == NotAFunction(Begin(s))

\* OSlandContentScript.handleMessage(message): the reply to the background
\* script.  It has no case for get_project_data and load_project_data; no
\* reply carries a projectData (<<>>: undefined).
ContentReply(type) ==
    IF type \in {"inject_osland", "extract_content", "execute_code", "get_page_info"}
    THEN [status |-> "success", projectData |-> <<>>]
    ELSE [status |-> "error", projectData |-> <<>>]

\* saveProject(callback) of the background script; tab: an active tab was
\* found.  The data of the save_project message is not looked at.
bg_saveProject(s, tab) ==
    LET response == ContentReply("get_project_data")
    IN IF tab /\ response.projectData # <<>>
       THEN [st |-> [s EXCEPT !.storage = response.projectData], success |-> TRUE]
       ELSE [st |-> s, success |-> FALSE]

\* loadProject(callback) of the background script: the stored document goes
\* to the content script, the callback gets { success } only.
bg_loadProject(s, tab) ==
    [st |-> s,
     success |-> s.storage # <<>> /\ tab
                 /\ ContentReply("load_project_data").status \in {"success", "error"}]

\* The reply of the background script read as a project document: it has no
\* name, no nodes and no connections.
ReplyAsDocument(r) == [name |-> "", nodes |-> <<>>, connections |-> <<>>]

\* The try block of OSlandIDE.saveProject(): the save_project message is
\* sent and, the promise resolved with whatever answer, success is shown.
I_sendSaveProject(s, tab) == [bg_saveProject(s, tab).st EXCEPT !.notice = "success"]

\* OSlandIDE.saveProject(): exportProjectData() is called before the try.
I_saveProject(s, tab) ==
    LET e == I_exportProjectData(s)
    IN IF e.thrown # "none" THEN e
       ELSE I_sendSaveProject(e, tab)

\* OSlandIDE.loadProject(): the reply is an object, so it is imported; what
\* importProjectData raises is caught.
I_loadProject(s, tab) ==
    LET r == bg_loadProject(Begin(s), tab)
        t == I_importProjectData(r.st, ReplyAsDocument(r))
    IN IF t.thrown # "none"
       THEN [t EXCEPT !.thrown = "none", !.notice = "error"]
       ELSE [t EXCEPT !.notice = "success"]

\* The 'input' listener of the panel's componentName / componentColor field.
P_componentInput(s, property, value) ==
    IF s.panelNode # 0
    THEN NotAFunction([Begin(s) EXCEPT
            !.comps[s.objs[s.panelNode].component] = SetProp(@, property, value)])
    ELSE Begin(s)

\* PropertyPanel.updateProperty(propertyPath, value); the path is split at '.'.
P_updateProperty(s, path, value) ==
    IF s.panelNode = 0 THEN Begin(s)
    ELSE LET n  == s.panelNode
             s1 == CASE path = <<"component", "name">> ->
                          [s EXCEPT !.comps[s.objs[n].component] = SetProp(@, "name", value)]
                      [] path = <<"component", "inputs">> ->
                          [s EXCEPT !.comps[s.objs[n].component] = SetProp(@, "inputs", value)]
                      [] path = <<"id">> -> [s EXCEPT !.objs[n].id = value]
                      [] OTHER -> s
         IN NotAFunction(Begin(s1))

-----------------------------------------------------------------------------
(* The VSCode extension: class Canvas of the canvas webview script.         *)

V_PORT_DX == 10         \* a port lies this far outside the node's box
V_PORT_Y0 == 15         \* y offset of port 0
V_PORT_DY == 20         \* spacing of the ports

Abs(v) == IF v < 0 THEN -v ELSE v

NullPort  == [kind |-> "null", nodeId |-> "", portId |-> ""]
ThrowPort == [kind |-> "throw", nodeId |-> "", portId |-> ""]
Port(n, q) == [kind |-> "port", nodeId |-> n, portId |-> q]

\* The ports of list q, at column px of node n, that pos is within tolerance of.
PortHits(n, q, px, pos) ==
    {j \in 1..Len(q) :
        /\ Abs(pos.x - px) <= PORT_TOLERANCE
        /\ Abs(pos.y - (n.y + V_PORT_Y0 + (j - 1) * V_PORT_DY)) <= PORT_TOLERANCE}

\* getPortAtPosition from node i of this.nodes on: the node's input ports, then its
\* output ports, then the next node.  Reading .length of a missing list raises.
RECURSIVE scanPorts(_, _, _)
scanPorts(s, pos, i) ==
    IF i > Len(Nodes(s)) THEN NullPort
    ELSE LET n  == s.objs[Nodes(s)[i]]
             c  == s.comps[n.component]
             inHit  == PortHits(n, c.inputs, n.x - V_PORT_DX, pos)
             outHit == PortHits(n, c.outputs, n.x + NODE_W + V_PORT_DX, pos)
         IN IF "inputs" \notin c.has THEN ThrowPort
            ELSE IF inHit # {} THEN Port(n.id, c.inputs[Min(inHit)])
            ELSE IF "outputs" \notin c.has THEN ThrowPort
            ELSE IF outHit # {} THEN Port(n.id, c.outputs[Min(outHit)])
            ELSE scanPorts(s, pos, i + 1)

getPortAtPosition(s, pos) == scanPorts(s, pos, 1)

\* A node as a message carries it: a structured clone, component included.
NodeValue(s, r) ==
    [id |-> s.objs[r].id, x |-> s.objs[r].x, y |-> s.objs[r].y,
     component |-> s.comps[s.objs[r].component]]

\* sendMessage({ type: 'node-selected', node }): the canvas provider fires
\* onNodeSelect, and propertyProvider.sendMessage posts the message to the
\* property panel if its view exists.
sendNodeSelected(s, r) ==
    IF s.panelView THEN [s EXCEPT !.toPanel = Append(@, NodeValue(s, r))] ELSE s

V_handleSelectTool(s) ==
    LET clickedNode == getNodeAtPosition(s, s.mousePos)
    IN IF clickedNode # 0
       THEN sendNodeSelected(
              [s EXCEPT !.selectedNode = clickedNode,
                        !.draggedNode = clickedNode,
                        !.dragOffset = Pt(s.mousePos.x - s.objs[clickedNode].x,
                                          s.mousePos.y - s.objs[clickedNode].y)],
              clickedNode)
       ELSE [s EXCEPT !.selectedNode = 0]

\* handleAddComponentTool that hands back the select tool after placing.
addComponentOnce(s, id) ==
    IF s.selectedComponent # 0
    THEN LET r == Min(FreeNodes(s))
         IN sendNodeSelected(
              [PushNode([s EXCEPT
                           !.objs[r] = [id |-> id, component |-> s.selectedComponent,
                                        x |-> s.mousePos.x - NODE_W \div 2,
                                        y |-> s.mousePos.y - NODE_H \div 2]], r)
                  EXCEPT !.selectedNode = r, !.selectedTool = "select"],
              r)
    ELSE s

\* id is the generated id; the node shares the object this.selectedComponent.
V_handleAddComponentTool(s, id) ==
    IF s.selectedComponent # 0
    THEN LET r == Min(FreeNodes(s))
         IN sendNodeSelected(
              [PushNode([s EXCEPT
                           !.objs[r] = [id |-> id, component |-> s.selectedComponent,
                                        x |-> s.mousePos.x - NODE_W \div 2,
                                        y |-> s.mousePos.y - NODE_H \div 2]], r)
                  EXCEPT !.selectedNode = r],
              r)
    ELSE s

V_handleConnectTool(s) ==
    LET port == getPortAtPosition(s, s.mousePos)
    IN IF port.kind = "throw" THEN Throw(s, "TypeError")
       ELSE IF port.kind = "port" /\ ~s.isConnecting
       THEN [s EXCEPT !.isConnecting = TRUE,
                      !.connectingFrom = <<[nodeId |-> port.nodeId,
                                            portId |-> port.portId]>>]
       ELSE s

\* handleMouseDown whose select case goes on into the connect tool.
mouseDownSelectAndConnect(s, p, id) ==
    LET s1 == [Begin(s) EXCEPT !.mousePos = p]
    IN CASE s1.selectedTool = "select"       -> V_handleConnectTool(V_handleSelectTool(s1))
         [] s1.selectedTool = "addComponent" -> V_handleAddComponentTool(s1, id)
         [] s1.selectedTool = "connect"      -> V_handleConnectTool(s1)
         [] OTHER                            -> s1

V_handleMouseDown(s, p, id) ==
    LET s1 == [Begin(s) EXCEPT !.mousePos = p]
    IN CASE s1.selectedTool = "select"       -> V_handleSelectTool(s1)
         [] s1.selectedTool = "addComponent" -> V_handleAddComponentTool(s1, id)
         [] s1.selectedTool = "connect"      -> V_handleConnectTool(s1)
         [] OTHER                            -> s1

V_handleMouseMove(s, p) ==
    LET s1 == [Begin(s) EXCEPT !.mousePos = p]
        s2 == IF s1.draggedNode # 0
              THEN [s1 EXCEPT !.objs[s1.draggedNode].x = p.x - s1.dragOffset.x,
                              !.objs[s1.draggedNode].y = p.y - s1.dragOffset.y]
              ELSE s1
    IN draw(s2)

\* id is the id generated if a connection is made.
V_completeConnection(s, id) ==
    LET port == getPortAtPosition(s, s.mousePos)
        s1 == IF /\ port.kind = "port"
                 /\ s.connectingFrom # <<>>
                 /\ port.nodeId # s.connectingFrom[1].nodeId
              THEN PushConn(s, Conn(id, s.connectingFrom[1].nodeId,
                                    s.connectingFrom[1].portId,
                                    port.nodeId, port.portId))
              ELSE s
    IN IF port.kind = "throw" THEN Throw(s, "TypeError")
       ELSE [s1 EXCEPT !.isConnecting = FALSE, !.connectingFrom = <<>>]

\* The listener of mouseup and of mouseleave.
V_handleMouseUp(s, id) ==
    LET s1 == [Begin(s) EXCEPT !.draggedNode = 0]
    IN IF s1.isConnecting THEN V_completeConnection(s1, id) ELSE s1

V_deleteSelectedNode(s) ==
    IF s.selectedNode # 0
    THEN LET sid == s.objs[s.selectedNode].id
             s1 == SetConns(s, SelectSeq(Conns(s),
                        LAMBDA c : c.fromNode # sid /\ c.toNode # sid))
             s2 == SetNodes(s1, SelectSeq(Nodes(s),
                        LAMBDA r : s.objs[r].id # sid))
         IN [s2 EXCEPT !.selectedNode = 0]
    ELSE s

V_handleKeyDown(s, key) ==
    IF key = "Delete" /\ s.selectedNode # 0
    THEN V_deleteSelectedNode(Begin(s))
    ELSE Begin(s)

V_updateNodeProperty(s, nodeId, property, value) ==
    LET node == findNode(s, nodeId)
    IN IF node # 0 /\ property = "name"
       THEN [s EXCEPT !.comps[s.objs[node].component].name = value]
       ELSE s

\* A 'message' listener whose init message hands over the connect tool.
onMessageConnectTool(s, message) ==
    CASE message.type = "init" ->
            [Begin(s) EXCEPT !.components = message.components,
                             !.selectedTool = "connect"]
      [] message.type = "component-selected" ->
            LET s1 == Gc([Begin(s) EXCEPT !.selectedComponent = 0])
                cr == Min(FreeComps(s1))
            IN [s1 EXCEPT !.comps[cr] = message.component,
                          !.selectedComponent = cr,
                          !.selectedTool = "addComponent"]
      [] message.type = "property-changed" ->
            V_updateNodeProperty(Begin(s), message.nodeId, message.property,
                                 message.value)
      [] OTHER -> Begin(s)

\* The webview's 'message' listener; a message's component is a new object (the
\* message is a structured clone).
V_onMessage(s, message) ==
    CASE message.type = "init" ->
            [Begin(s) EXCEPT !.components = message.components]
      [] message.type = "component-selected" ->
            LET s1 == Gc([Begin(s) EXCEPT !.selectedComponent = 0])
                cr == Min(FreeComps(s1))
            IN [s1 EXCEPT !.comps[cr] = message.component,
                          !.selectedComponent = cr,
                          !.selectedTool = "addComponent"]
      [] message.type = "property-changed" ->
            V_updateNodeProperty(Begin(s), message.nodeId, message.property,
                                 message.value)
      [] OTHER -> Begin(s)

V_addConnection(s, id, fromNodeId, fromPort, toNodeId, toPort) ==
    draw(PushConn(Begin(s), Conn(id, fromNodeId, fromPort, toNodeId, toPort)))

-----------------------------------------------------------------------------
(* The VSCode extension: class PropertyPanel of the property panel webview  *)
(* script, and the relay of setupWebviewCommunication.                      *)

\* The panel's 'message' listener, given the oldest node-selected message.
VP_onMessage(s) ==
    [Begin(s) EXCEPT !.vpanel = <<Head(s.toPanel)>>, !.toPanel = Tail(@)]

\* parseFloat(value) || 0 of the numerals the panel's fields are given.
ParseFloat(value) ==
    CASE value = "7" -> 7
      [] value = "9" -> 9
      [] OTHER       -> 0

\* handlePropertyChange(property, value): the panel's copy is updated, and
\* the property-changed message goes, by onPropertyChange, to the canvas.
VP_handlePropertyChange(s, property, value) ==
    IF s.vpanel = <<>> THEN Begin(s)
    ELSE LET n  == s.vpanel[1]
             n1 == CASE property = "name"  -> [n EXCEPT !.component.name = value]
                     [] property = "color" -> [n EXCEPT !.component.color = value]
                     [] property = "x"     -> [n EXCEPT !.x = ParseFloat(value)]
                     [] property = "y"     -> [n EXCEPT !.y = ParseFloat(value)]
                     [] OTHER              -> n
         IN [Begin(s) EXCEPT
               !.vpanel = <<n1>>,
               !.toCanvas = Append(@, [type |-> "property-changed", nodeId |-> n.id,
                                       property |-> property, value |-> value])]

\* The canvas's 'message' listener, given the oldest property-changed message.
V_receive(s) ==
    [V_onMessage(s, Head(s.toCanvas)) EXCEPT !.toCanvas = Tail(s.toCanvas)]

-----------------------------------------------------------------------------
(* The IntelliJ plugin: class CanvasPanel of OSlandToolWindow.  A Node holds *)
(* its own name and type (copied from the ComponentNode), kept here in a     *)
(* component record of its own.  isDragging stands for dragOffset != null,   *)
(* draggedNode for draggingNode.                                             *)

J_NODE_WIDTH == 120
J_NODE_HEIGHT == 80

\* The ComponentNodes of the component tree (the first of two categories).
TreeComponents ==
    << Comp("cpu", "CPU", "processor", "", "", <<>>, <<>>, {}),
       Comp("ram", "RAM", "memory", "", "", <<>>, <<>>, {}) >>

\* findNodeAt(x, y): the first node whose box holds the point.
J_findNodeAt(s, pos) ==
    LET q == Nodes(s)
        hit == {i \in 1..Len(q) :
                  /\ pos.x >= s.objs[q[i]].x
                  /\ pos.x <= s.objs[q[i]].x + J_NODE_WIDTH
                  /\ pos.y >= s.objs[q[i]].y
                  /\ pos.y <= s.objs[q[i]].y + J_NODE_HEIGHT}
    IN IF hit = {} THEN 0 ELSE q[Min(hit)]

\* mousePressed(e); the id of a new node is "node-" + nextNodeId++, and nodes
\* are never taken out of the list.
J_mousePressed(s, p) ==
    IF s.selectedComponent # 0
    THEN LET r  == Min(FreeNodes(s))
             cr == Min(FreeComps(s))
             c  == s.comps[s.selectedComponent]
         IN PushNode([Begin(s) EXCEPT
                        !.comps[cr] = Comp("", c.name, c.type, "", "", <<>>, <<>>, {}),
                        !.objs[r] = [id |-> NodeIdSeq[Len(Nodes(s)) + 1],
                                     component |-> cr,
                                     x |-> p.x - J_NODE_WIDTH \div 2,
                                     y |-> p.y - J_NODE_HEIGHT \div 2]], r)
    ELSE LET n == J_findNodeAt(s, p)
         IN IF n # 0
            THEN [Begin(s) EXCEPT
                    !.draggedNode = n,
                    !.isDragging = TRUE,
                    !.dragOffset = Pt(p.x - s.objs[n].x, p.y - s.objs[n].y),
                    !.selectedNode = n]
            ELSE [Begin(s) EXCEPT !.draggedNode = 0, !.selectedNode = 0]

J_mouseReleased(s) ==
    [Begin(s) EXCEPT !.draggedNode = 0, !.isDragging = FALSE,
                     !.dragOffset = Pt(0, 0)]

J_mouseDragged(s, p) ==
    IF s.draggedNode # 0 /\ s.isDragging
    THEN [Begin(s) EXCEPT !.objs[s.draggedNode].x = p.x - s.dragOffset.x,
                          !.objs[s.draggedNode].y = p.y - s.dragOffset.y]
    ELSE Begin(s)

\* The tree's selection listener: c is <<>> when the selection is no
\* ComponentNode, else <<the ComponentNode>>.
J_treeSelection(s, c) ==
    LET s1 == Gc([Begin(s) EXCEPT !.selectedComponent = 0])
        cr == Min(FreeComps(s1))
    IN IF c = <<>> THEN s1
       ELSE [s1 EXCEPT !.comps[cr] = c[1], !.selectedComponent = cr]

\* handleNodeSelected(data): a node-selected message of the OSland process.
J_handleNodeSelected(s, nodeId) ==
    [Begin(s) EXCEPT !.selectedNode = findNode(s, nodeId)]

-----------------------------------------------------------------------------
(* Inputs *)

\* Where the pointer goes.  Browser: inside a node at (100,100), inside a node
\* at (300,100).
BPoints == {Pt(150, 120), Pt(350, 120)}
BDrops  == {Pt(100, 100), Pt(300, 100)}
\* VSCode: the middle of a node at (0,0), the output port of a node at (0,0),
\* the input port of a node at (200,0).
VPoints == {Pt(50, 25), Pt(110, 15), Pt(190, 15)}

\* (property, value) pairs of updateNodeProperty and of property-changed messages.
PropertyEdits == { <<"name", "Renamed">>, <<"inputs", <<"in", "extra">> >> }

\* (path, value) pairs of PropertyPanel.updateProperty.
PathEdits == { << <<"component", "name">>, "Renamed" >>,
               << <<"component", "inputs">>, <<"in", "extra">> >>,
               << <<"id">>, "node-b" >> }

\* The components a component-selected message can carry: an entry of the
\* component panel's library, or an entry of the canvas's own catalog.
MessageComponents == {ComponentLibrary[1], DefaultComponents[1]}

\* The ids the clock and the random generator can give to a new object: an id
\* already in use, or a new one.  Which new one is of no consequence: it is
\* the first of the sequence that is not in use.
NewIds(used, q) ==
    LET unused == {i \in 1..Len(q) : q[i] \notin used}
    IN (used \cap Range(q)) \cup (IF unused = {} THEN {} ELSE {q[Min(unused)]})

NewNodeIds(s) == NewIds({s.objs[r].id : r \in LiveNodes(s)}, NodeIdSeq)
NewConnIds(s) == NewIds({c.id : c \in Range(Conns(s)) \cup Range(DocConns(s))}, ConnIdSeq)

\* The (fromNodeId, toNodeId) pairs addConnection is called with.
ConnEnds == {<<"node-a", "node-a">>, <<"node-a", "node-b">>, <<"node-b", "node-c">>}

-----------------------------------------------------------------------------
(* Initial states *)

\* The state the constructor leaves.
Fresh(h) ==
    [host |-> h, nodes |-> 1, connections |-> 1,
     selectedNode |-> 0, draggedNode |-> 0, isDragging |-> FALSE,
     dragOffset |-> Pt(0, 0), isConnecting |-> FALSE, connectingFrom |-> <<>>,
     mousePos |-> Pt(0, 0), selectedTool |-> "select",
     selectedComponent |-> 0, components |-> <<>>,
     objs |-> [r \in NodeRefs |-> NoNode],
     comps |-> [r \in CompRefs |->
                 IF h = "browser" /\ r <= CatalogSize
                 THEN ComponentLibrary[r] ELSE NoComp],
     arrN |-> [a \in ArrRefs |-> <<>>],
     arrC |-> [a \in ArrRefs |-> <<>>],
     panelNode |-> 0, projectName |-> "Untitled Project", doc |-> <<>>,
     thrown |-> "none", storage |-> <<>>, notice |-> "", panelView |-> FALSE, vpanel |-> <<>>, toPanel |-> <<>>, toCanvas |-> <<>>, oslandProcess |-> 0, procs |-> <<>>, outputWriter |-> 0, stdin |-> <<>>, reply |-> "", oslandKernel |-> "null", kernelLog |-> <<>>, answers |-> <<>>]

\* The graphs a VSCode canvas is given below: what placements leave.  Each
\* node is [id, x, y, ported]; ported nodes are made from the first entry of
\* the canvas's catalog, the others from the first entry of the component
\* panel's library.
Layouts ==
    { << [id |-> "node-a", x |-> 0,   y |-> 0,   ported |-> TRUE],
         [id |-> "node-b", x |-> 200, y |-> 0,   ported |-> TRUE] >>,
      << [id |-> "node-a", x |-> 0,   y |-> 0,   ported |-> TRUE],
         [id |-> "node-b", x |-> 200, y |-> 0,   ported |-> FALSE] >>,
      << [id |-> "node-a", x |-> 0,   y |-> 0,   ported |-> TRUE],
         [id |-> "node-c", x |-> 100, y |-> 100, ported |-> FALSE],
         [id |-> "node-b", x |-> 200, y |-> 0,   ported |-> TRUE] >>,
      << [id |-> "node-a", x |-> 0,   y |-> 0,   ported |-> TRUE],
         [id |-> "node-b", x |-> 100, y |-> 0,   ported |-> TRUE] >> }

\* A VSCode canvas whose private field selectedTool holds tool and whose graph
\* is g, every node placed after a component-selected message of its own; the
\* last node placed is the selected one.  handleMouseDown dispatches on
\* selectedTool to handleSelectTool, handleAddComponentTool and
\* handleConnectTool, but the only assignment to the field is the one of the
\* component-selected message ('addComponent'): no event of the webview leads
\* from the constructor's state to a canvas that holds nodes under the select
\* tool, or to the connect tool.  These are the states the handlers of the two
\* tools are run from.
Placed(tool, g) ==
    [Fresh("vscode") EXCEPT
        !.selectedTool = tool,
        !.components = DefaultComponents,
        !.comps = [r \in CompRefs |->
                     IF r > Len(g) THEN NoComp
                     ELSE IF g[r].ported THEN DefaultComponents[1]
                     ELSE ComponentLibrary[1]],
        !.objs = [r \in NodeRefs |->
                     IF r > Len(g) THEN NoNode
                     ELSE [id |-> g[r].id, component |-> r,
                           x |-> g[r].x, y |-> g[r].y]],
        !.arrN = [a \in ArrRefs |-> IF a = 1 THEN [i \in 1..Len(g) |-> i] ELSE <<>>],
        !.selectedNode = Len(g),
        !.selectedComponent = Len(g),
        !.mousePos = Pt(g[Len(g)].x + NODE_W \div 2, g[Len(g)].y + NODE_H \div 2)]

Is(s) ==
    /\ host = s.host /\ nodes = s.nodes /\ connections = s.connections
    /\ selectedNode = s.selectedNode /\ draggedNode = s.draggedNode
    /\ isDragging = s.isDragging /\ dragOffset = s.dragOffset
    /\ isConnecting = s.isConnecting /\ connectingFrom = s.connectingFrom
    /\ mousePos = s.mousePos /\ selectedTool = s.selectedTool
    /\ selectedComponent = s.selectedComponent /\ components = s.components
    /\ objs = s.objs /\ comps = s.comps /\ arrN = s.arrN /\ arrC = s.arrC
    /\ panelNode = s.panelNode /\ projectName = s.projectName /\ doc = s.doc
    /\ thrown = s.thrown /\ storage = s.storage /\ notice = s.notice /\ panelView = s.panelView /\ vpanel = s.vpanel /\ toPanel = s.toPanel /\ toCanvas = s.toCanvas /\ oslandProcess = s.oslandProcess /\ procs = s.procs /\ outputWriter = s.outputWriter /\ stdin = s.stdin /\ reply = s.reply /\ oslandKernel = s.oslandKernel /\ kernelLog = s.kernelLog /\ answers = s.answers

Set(s) ==
    /\ host' = s.host /\ nodes' = s.nodes /\ connections' = s.connections
    /\ selectedNode' = s.selectedNode /\ draggedNode' = s.draggedNode
    /\ isDragging' = s.isDragging /\ dragOffset' = s.dragOffset
    /\ isConnecting' = s.isConnecting /\ connectingFrom' = s.connectingFrom
    /\ mousePos' = s.mousePos /\ selectedTool' = s.selectedTool
    /\ selectedComponent' = s.selectedComponent /\ components' = s.components
    /\ objs' = s.objs /\ comps' = s.comps /\ arrN' = s.arrN /\ arrC' = s.arrC
    /\ panelNode' = s.panelNode /\ projectName' = s.projectName /\ doc' = s.doc
    /\ thrown' = s.thrown /\ storage' = s.storage /\ notice' = s.notice /\ panelView' = s.panelView /\ vpanel' = s.vpanel /\ toPanel' = s.toPanel /\ toCanvas' = s.toCanvas /\ oslandProcess' = s.oslandProcess /\ procs' = s.procs /\ outputWriter' = s.outputWriter /\ stdin' = s.stdin /\ reply' = s.reply /\ oslandKernel' = s.oslandKernel /\ kernelLog' = s.kernelLog /\ answers' = s.answers

\* A handler has run to its end (or to its exception).
Do(s) == Set(Compact(Gc(s)))

InitBrowser == Is(Fresh("browser"))
InitVSCode  == Is(Fresh("vscode"))
InitTools   == \E tool \in {"select", "connect"}, g \in Layouts : Is(Placed(tool, g))
Init        == InitBrowser \/ InitVSCode

-----------------------------------------------------------------------------
(* Events of the browser canvas.  n bounds the nodes, m the connections.    *)

BMouseDown == host = "browser" /\ \E p \in BPoints : Do(B_handleMouseDown(Cur, p))
BMouseMove == host = "browser" /\ \E p \in BPoints : Do(B_handleMouseMove(Cur, p))
BMouseUp   == host = "browser" /\ Do(B_handleMouseUp(Cur))
BClick     == host = "browser" /\ \E p \in BPoints : Do(B_handleClick(Cur, p))

\* Fewer than n node objects are alive.
CanAddNode(n) == Cardinality(LiveNodes(Cur)) < n

\* A click on an entry of the component panel: the IDE's componentSelected
\* listener adds the catalog's object itself.
BComponentSelected ==
    /\ host = "browser" /\ CanAddNode(MaxGraph)
    /\ \E k \in 1..CatalogSize, id \in NewNodeIds(Cur) :
         Do(B_addNode(Cur, k, IDE_DROP_X, IDE_DROP_Y, id))

\* canvas.addNode(component, x, y) with a component that has port lists.
AddNode(n) ==
    /\ host = "browser" /\ CanAddNode(n) /\ FreeComps(Cur) # {}
    /\ \E p \in BDrops, id \in NewNodeIds(Cur) :
         LET cr == Min(FreeComps(Cur))
         IN Do(B_addNode([Cur EXCEPT !.comps[cr] = DefaultComponents[1]],
                         cr, p.x, p.y, id))
BAddNode == AddNode(MaxGraph)

BRemoveNode == host = "browser" /\ \E id \in NodeIds : Do(B_removeNode(Cur, id))

AddConnection(m) ==
    /\ host = "browser" /\ Len(Conns(Cur)) < m
    /\ \E id \in NewConnIds(Cur), e \in ConnEnds :
         Do(B_addConnection(Cur, id, e[1], "out", e[2], "in"))
BAddConnection == AddConnection(MaxWires)
RAddConnection == AddConnection(MaxConns)

BUpdateNodeProperty ==
    /\ host = "browser"
    /\ \E id \in NodeIds, e \in PropertyEdits :
         Do(B_updateNodeProperty(Cur, id, e[1], e[2]))

BGetProjectData == host = "browser" /\ Do(B_getProjectData(Cur))

BLoadProjectData ==
    /\ host = "browser" /\ doc # <<>>
    /\ Do(B_loadProjectData(Cur, doc[1]))

BLoadLiteral ==
    /\ host = "browser"
    /\ \E L \in LitDocs : CanMaterialise(Cur, L) /\ Do(B_loadLiteral(Cur, L))

IExportProjectData == host = "browser" /\ Do(I_exportProjectData(Cur))
IImportProjectData ==
    host = "browser" /\ \E L \in LitDocs : Do(I_importProjectData(Cur, L))
INewProject == host = "browser" /\ Do(I_newProject(Cur))

PComponentInput ==
    /\ host = "browser" /\ panelNode # 0
    /\ Do(P_componentInput(Cur, "name", "Renamed"))

PUpdateProperty ==
    host = "browser" /\ \E e \in PathEdits : Do(P_updateProperty(Cur, e[1], e[2]))

\* Every event of the browser extension.
BrowserNext ==
    \/ BMouseDown \/ BMouseMove \/ BMouseUp \/ BClick
    \/ BComponentSelected \/ BAddNode \/ BRemoveNode \/ BAddConnection
    \/ BUpdateNodeProperty \/ PComponentInput \/ PUpdateProperty
    \/ BGetProjectData \/ BLoadProjectData \/ BLoadLiteral
    \/ IExportProjectData \/ IImportProjectData \/ INewProject

\* The pointer on a graph that is built, loaded and taken apart.
PointerNext ==
    \/ BMouseDown \/ BMouseMove \/ BMouseUp \/ BClick
    \/ BAddNode \/ BRemoveNode \/ BLoadLiteral

\* The panels: placing components and editing the properties of nodes.
PanelNext ==
    \/ BClick \/ BComponentSelected \/ BAddNode \/ BRemoveNode
    \/ BUpdateNodeProperty \/ PComponentInput \/ PUpdateProperty

\* Saving and loading a graph.
ProjectNext ==
    \/ BAddNode \/ BAddConnection
    \/ BGetProjectData \/ BLoadProjectData \/ BLoadLiteral
    \/ IExportProjectData \/ IImportProjectData \/ INewProject

-----------------------------------------------------------------------------
(* Events of the VSCode canvas *)

MouseDown(n, P) ==
    /\ host = "vscode"
    /\ selectedTool = "addComponent" /\ selectedComponent # 0 => CanAddNode(n)
    /\ \E p \in P, id \in NewNodeIds(Cur) : Do(V_handleMouseDown(Cur, p, id))
VMouseDown == MouseDown(MaxGraph, VPoints)

VMouseMove == host = "vscode" /\ \E p \in VPoints : Do(V_handleMouseMove(Cur, p))

MouseUp(m) ==
    /\ host = "vscode"
    /\ isConnecting => Len(Conns(Cur)) < m
    /\ \E id \in NewConnIds(Cur) : Do(V_handleMouseUp(Cur, id))
VMouseUp == MouseUp(MaxWires)

VKeyDown == host = "vscode" /\ \E key \in {"Delete", "a"} : Do(V_handleKeyDown(Cur, key))

VInit ==
    /\ host = "vscode"
    /\ Do(V_onMessage(Cur, [type |-> "init", components |-> DefaultComponents]))

ComponentSelected(C) ==
    /\ host = "vscode"
    /\ \E c \in C :
         Do(V_onMessage(Cur, [type |-> "component-selected", component |-> c]))
VComponentSelected == ComponentSelected(MessageComponents)

VPropertyChanged ==
    /\ host = "vscode"
    /\ \E id \in NodeIds, e \in PropertyEdits :
         Do(V_onMessage(Cur, [type |-> "property-changed", nodeId |-> id,
                              property |-> e[1], value |-> e[2]]))

WebviewAddConnection(m) ==
    /\ host = "vscode" /\ Len(Conns(Cur)) < m
    /\ \E id \in NewConnIds(Cur), e \in ConnEnds :
         Do(V_addConnection(Cur, id, e[1], "out", e[2], "in"))
VAddConnection == WebviewAddConnection(MaxWires)

\* The events of the canvas webview alone: pointer, keyboard and the
\* messages of the host.
EventsNext ==
    \/ VMouseDown \/ VMouseMove \/ VMouseUp \/ VKeyDown
    \/ VInit \/ VComponentSelected \/ VPropertyChanged

VSCodeNext ==
    \/ VMouseDown \/ VMouseMove \/ VMouseUp \/ VKeyDown
    \/ VInit \/ VComponentSelected \/ VPropertyChanged \/ VAddConnection

-----------------------------------------------------------------------------
(* Events of the IntelliJ canvas panel *)

\* Inside a node placed at (60,40), inside a node placed at (200,50), and
\* between the two.
JPoints == {Pt(60, 40), Pt(200, 50), Pt(130, 40)}

InitIntelliJ == Is(Fresh("intellij"))

JMousePressed ==
    /\ host = "intellij"
    /\ selectedComponent # 0 => CanAddNode(MaxGraph)
    /\ \E p \in JPoints : Do(J_mousePressed(Cur, p))

JMouseReleased == host = "intellij" /\ Do(J_mouseReleased(Cur))

JMouseDragged == host = "intellij" /\ \E p \in JPoints : Do(J_mouseDragged(Cur, p))

JTreeSelection ==
    /\ host = "intellij"
    /\ \E c \in {<<>>} \cup {<<TreeComponents[k]>> : k \in 1..Len(TreeComponents)} :
         Do(J_treeSelection(Cur, c))

JNodeSelected ==
    host = "intellij" /\ \E id \in NodeIds : Do(J_handleNodeSelected(Cur, id))

IntelliJNext ==
    \/ JMousePressed \/ JMouseReleased \/ JMouseDragged
    \/ JTreeSelection \/ JNodeSelected

-----------------------------------------------------------------------------
(* The pointer and the keyboard on a VSCode canvas whose tool is given *)

TMouseUp == MouseUp(MaxConns)

ToolsNext == VMouseDown \/ VMouseMove \/ TMouseUp \/ VKeyDown

-----------------------------------------------------------------------------
(* Building a graph and removing nodes from it, in either canvas *)

RAddNode   == AddNode(MaxNodes)
RMouseDown == MouseDown(MaxNodes, {Pt(50, 25)})
RComponentSelected == ComponentSelected({DefaultComponents[1]})
RWebviewAddConnection == WebviewAddConnection(MaxConns)

RemoveNext ==
    \/ RAddNode \/ BClick \/ BRemoveNode \/ RAddConnection
    \/ RComponentSelected \/ RMouseDown \/ VKeyDown \/ RWebviewAddConnection

\* Saving to and loading from chrome.storage: the IDE's buttons and the
\* popup's, which go to the background script directly.
ISaveProject == host = "browser" /\ \E tab \in BOOLEAN : Do(I_saveProject(Cur, tab))
ILoadProject == host = "browser" /\ \E tab \in BOOLEAN : Do(I_loadProject(Cur, tab))
PopupSaveProject ==
    host = "browser" /\ \E tab \in BOOLEAN : Do(bg_saveProject(Begin(Cur), tab).st)
PopupLoadProject ==
    host = "browser" /\ \E tab \in BOOLEAN : Do(bg_loadProject(Begin(Cur), tab).st)

StorageNext ==
    \/ BAddNode \/ BAddConnection \/ BRemoveNode
    \/ ISaveProject \/ ILoadProject \/ PopupSaveProject \/ PopupLoadProject

\* Loading into a project that was given a name.
ProjectNames == {"Kernel A", "Kernel B"}
IProjectNameChanged ==
    host = "browser" /\ \E name \in ProjectNames : Do(I_projectNameChanged(Cur, name))
LoadNext == StorageNext \/ IProjectNameChanged

\* ---------------------------------------------------------------------------
\* The message listener of the background script.  load is what loading the
\* kernel does when it is asked for: "ok", or importScripts, the constructor
\* or initialize() raising.
MaxCalls == 3
KernelLoads == {"ok", "importThrows", "newThrows", "initThrows"}
BgMessages == {"save_project", "load_project", "initialize_osland",
               "run_project", "build_project", "get_project_data"}

Answer(s, text) == [s EXCEPT !.answers = Append(@, text)]

\* initializeOSland that does not look at oslandKernel first.
initializeAlways(s, load) ==
    CASE load \in {"importThrows", "newThrows"} ->
           [st |-> s, threw |-> TRUE, message |-> ""]
      [] load = "initThrows" ->
           [st |-> [s EXCEPT !.oslandKernel = "constructed",
                             !.kernelLog = Append(@, "new")],
            threw |-> TRUE, message |-> ""]
      [] OTHER ->
           [st |-> [s EXCEPT !.oslandKernel = "initialized",
                             !.kernelLog = @ \o <<"new", "initialize">>],
            threw |-> FALSE, message |-> "OSland kernel initialized"]

\* initializeOSland(callback): threw is an exception leaving the function
\* before the callback is called.
bg_initializeOSland(s, load) ==
    IF s.oslandKernel = "null"
    THEN CASE load \in {"importThrows", "newThrows"} ->
                [st |-> s, threw |-> TRUE, message |-> ""]
           [] load = "initThrows" ->
                [st |-> [s EXCEPT !.oslandKernel = "constructed",
                                  !.kernelLog = Append(@, "new")],
                 threw |-> TRUE, message |-> ""]
           [] OTHER ->
                [st |-> [s EXCEPT !.oslandKernel = "initialized",
                                  !.kernelLog = @ \o <<"new", "initialize">>],
                 threw |-> FALSE, message |-> "OSland kernel initialized"]
    ELSE [st |-> s, threw |-> FALSE, message |-> "OSland kernel already initialized"]

\* executeRunProject(callback) and executeBuildProject(callback); call is
\* "run" or "build", response the reply of the tab to get_project_data.
bg_execute(s, tab, response, call) ==
    IF tab
    THEN IF response.projectData # <<>>
         THEN Answer([s EXCEPT !.kernelLog = Append(@, call)],
                     IF call = "run" THEN "Project running" ELSE "Project built successfully")
         ELSE Answer(s, "Failed to get project data")
    ELSE Answer(s, "No active tab found")

\* runProject(callback) and buildProject(callback)
bg_runProject(s, tab, load, response, call) ==
    IF s.oslandKernel = "null"
    THEN LET i == bg_initializeOSland(s, load)
         IN IF i.threw THEN i.st ELSE bg_execute(i.st, tab, response, call)
    ELSE bg_execute(s, tab, response, call)

\* The chrome.runtime.onMessage listener.
bg_onMessage(s, type, tab, load, response) ==
    LET s0 == [s EXCEPT !.answers = <<>>]
    IN CASE type = "save_project" ->
              LET r == bg_saveProject(s0, tab)
              IN Answer(r.st, IF r.success THEN "success" ELSE "failure")
         [] type = "load_project" ->
              LET r == bg_loadProject(s0, tab)
              IN Answer(r.st, IF r.success THEN "success" ELSE "failure")
         [] type = "initialize_osland" ->
              LET i == bg_initializeOSland(s0, load)
              IN IF i.threw THEN i.st ELSE Answer(i.st, i.message)
         [] type = "run_project" -> bg_runProject(s0, tab, load, response, "run")
         [] type = "build_project" -> bg_runProject(s0, tab, load, response, "build")
         [] OTHER -> Answer(s0, "Unknown message type")

BgMessage ==
    /\ host = "browser" /\ Len(kernelLog) < MaxCalls
    /\ \E type \in BgMessages, tab \in BOOLEAN, load \in KernelLoads :
          Do(bg_onMessage(Begin(Cur), type, tab, load, ContentReply("get_project_data")))
BackgroundNext == BAddNode \/ IProjectNameChanged \/ BgMessage

\* The canvas and the property panel of the VSCode extension, the property
\* view open, with the messages between them.
MaxQueue == 1           \* messages on their way in one direction

PanelEdits == { <<"name", "Renamed">>, <<"color", "#ff0000">>, <<"x", "7">>, <<"y", "9">> }

InitPanels == Is([Fresh("vscode") EXCEPT !.panelView = TRUE])

\* The middle of a node placed at (50, 25), and a point 140 to its right.
QPoints == {Pt(50, 25), Pt(190, 25)}

QMouseDown == Len(toPanel) < MaxQueue /\ MouseDown(MaxGraph, QPoints)
PanelReceive == host = "vscode" /\ toPanel # <<>> /\ Do(VP_onMessage(Cur))
PanelChange ==
    /\ host = "vscode" /\ Len(toCanvas) < MaxQueue
    /\ \E e \in PanelEdits : Do(VP_handlePropertyChange(Cur, e[1], e[2]))
CanvasReceive == host = "vscode" /\ toCanvas # <<>> /\ Do(V_receive(Cur))

PanelsNext ==
    \/ RComponentSelected \/ QMouseDown \/ VMouseUp \/ VKeyDown
    \/ PanelReceive \/ PanelChange \/ CanvasReceive

\* ---------------------------------------------------------------------------
\* The kernel process behind the IDE.  procs[p] is the state of the p-th
\* process spawned: "running"; "failed" (the spawn failed, its 'error' event
\* is still to come); "errored" (that event was delivered); "exited" (the
\* process ended by itself, its 'exit' event is still to come); "killed"
\* (ended by kill(), 'exit' event still to come); "reaped" (the 'exit' event
\* was delivered, or waitFor() returned).
MaxProcs == 3
MaxWrites == 2
Commands == {"version", "run"}

Running(s, p) == p \in DOMAIN s.procs /\ s.procs[p] = "running"

\* A write on the standard input of process p: the line reaches the kernel
\* when p runs; on the destroyed stream of an ended or unspawned process it is
\* dropped without an exception at the caller.
WriteLine(s, p, line) ==
    IF Running(s, p) THEN [s EXCEPT !.stdin = Append(@, [proc |-> p, line |-> line])]
    ELSE s

Killed(st) == IF st = "running" THEN "killed" ELSE st

\* OslandCommunication.startOsland: the handle is assigned the result of
\* cp.spawn, whatever it held; "threw" is spawn raising before the assignment.
T_startOsland(s, outcome) ==
    IF outcome = "threw" THEN s
    ELSE [s EXCEPT !.procs = Append(@, outcome), !.oslandProcess = Len(s.procs) + 1]

\* The 'exit' listener registered by startOsland on process p.
T_onExit(s, p) == [s EXCEPT !.procs[p] = "reaped", !.oslandProcess = 0]

\* The 'error' listener registered by startOsland on process p.
T_onError(s, p) == [s EXCEPT !.procs[p] = "errored"]

T_stopOsland(s) ==
    IF s.oslandProcess # 0
    THEN [s EXCEPT !.procs[s.oslandProcess] = Killed(@), !.oslandProcess = 0]
    ELSE s

T_sendCommand(s, command) ==
    IF s.oslandProcess = 0
    THEN [s EXCEPT !.reply = "OSland process is not running"]
    ELSE [WriteLine(s, s.oslandProcess, command \o "\n")
              EXCEPT !.reply = "Command executed successfully"]

KStartOsland ==
    /\ host = "vscode" /\ Len(procs) < MaxProcs
    /\ \E outcome \in {"running", "failed", "threw"} : Do(T_startOsland(Cur, outcome))
KStopOsland == host = "vscode" /\ oslandProcess # 0 /\ Do(T_stopOsland(Cur))
KProcessExits ==
    /\ host = "vscode"
    /\ \E p \in DOMAIN procs : procs[p] = "running" /\ Do([Cur EXCEPT !.procs[p] = "exited"])
KExitEvent ==
    /\ host = "vscode"
    /\ \E p \in DOMAIN procs : procs[p] \in {"exited", "killed"} /\ Do(T_onExit(Cur, p))
KErrorEvent ==
    /\ host = "vscode"
    /\ \E p \in DOMAIN procs : procs[p] = "failed" /\ Do(T_onError(Cur, p))
KSendCommand ==
    /\ host = "vscode" /\ Len(stdin) < MaxWrites
    /\ \E c \in Commands : Do(T_sendCommand(Cur, c))
KernelNext ==
    KStartOsland \/ KStopOsland \/ KProcessExits \/ KExitEvent \/ KErrorEvent \/ KSendCommand

\* startOSland that keeps the writer of an earlier process.
startKeepsWriter(s, outcome) ==
    IF outcome = "threw" THEN s
    ELSE [s EXCEPT !.procs = Append(@, "running"),
                   !.oslandProcess = Len(s.procs) + 1,
                   !.outputWriter = IF @ = 0 THEN Len(s.procs) + 1 ELSE @]

\* IntelliJ's OSlandCommunicationService.  ProcessBuilder.start either gives
\* a running process or raises IOException, which startOSland catches.
S_startOSland(s, outcome) ==
    IF outcome = "threw" THEN s
    ELSE [s EXCEPT !.procs = Append(@, "running"),
                   !.oslandProcess = Len(s.procs) + 1,
                   !.outputWriter = Len(s.procs) + 1]

\* destroy() and waitFor(): the process has ended when stopOSland returns.
S_stopOSland(s) ==
    IF s.oslandProcess # 0
    THEN [s EXCEPT !.procs[s.oslandProcess] = "reaped",
                   !.oslandProcess = 0, !.outputWriter = 0]
    ELSE s

isOSlandRunning(s) == s.oslandProcess # 0 /\ Running(s, s.oslandProcess)

\* objectMapper.writeValueAsString(new CommandMessage(command, data))
CommandJson(command, data) ==
    "{\"command\":\"" \o command \o "\",\"data\":" \o data \o "}"

S_sendCommand(s, command, data) ==
    IF s.outputWriter = 0
    THEN [s EXCEPT !.reply = "OSland process is not running"]
    ELSE [WriteLine(s, s.outputWriter, CommandJson(command, data))
              EXCEPT !.reply = "Sent command to OSland"]

ServiceCommands == {"addComponent", "selectNode"}
ServiceData == {"null", "{\"id\":\"node_1\"}"}

SStartOSland ==
    /\ host = "intellij" /\ Len(procs) < MaxProcs
    /\ \E outcome \in {"running", "threw"} : Do(S_startOSland(Cur, outcome))
SStopOSland == host = "intellij" /\ oslandProcess # 0 /\ Do(S_stopOSland(Cur))
SProcessExits ==
    /\ host = "intellij"
    /\ \E p \in DOMAIN procs : procs[p] = "running" /\ Do([Cur EXCEPT !.procs[p] = "exited"])
SSendCommand ==
    /\ host = "intellij" /\ Len(stdin) < MaxWrites
    /\ \E c \in ServiceCommands, d \in ServiceData : Do(S_sendCommand(Cur, c, d))
ServiceNext == SStartOSland \/ SStopOSland \/ SProcessExits \/ SSendCommand

\* ---------------------------------------------------------------------------
\* Where the renderers put a port.  n is a node, side "input" or "output",
\* i the index of the port in its list, from 0.

\* VSCode drawNode: the centre of the port marker.
V_drawNodePort(n, side, i) ==
    IF side = "input" THEN Pt(n.x - 10, n.y + 15 + (i * 20))
    ELSE Pt(n.x + 110, n.y + 15 + (i * 20))

\* drawConnections with the spacing of the browser canvas.
connectionEndNarrow(n, side, i) ==
    IF side = "input" THEN Pt(n.x - 10, n.y + 15 + (i * 15))
    ELSE Pt(n.x + 110, n.y + 15 + (i * 15))

\* VSCode drawConnections: the end of a line at toNode's input port
\* toPortIndex, its start at fromNode's output port fromPortIndex.
V_drawConnectionsEnd(n, side, i) ==
    IF side = "input" THEN Pt(n.x - 10, n.y + 15 + (i * 20))
    ELSE Pt(n.x + 110, n.y + 15 + (i * 20))

\* VSCode drawConnectingLine: the start of the dashed line, at an output port.
V_drawConnectingLineFrom(n, i) == Pt(n.x + 110, n.y + 15 + (i * 20))

\* Browser drawNode, drawConnections and drawConnectingLine.
B_drawNodePort(n, side, i) ==
    IF side = "input" THEN Pt(n.x, n.y + 10 + (i * 15))
    ELSE Pt(n.x + 100, n.y + 10 + (i * 15))

B_drawConnectionsEnd(n, side, i) ==
    IF side = "input" THEN Pt(n.x, n.y + 10 + (i * 15))
    ELSE Pt(n.x + 100, n.y + 10 + (i * 15))

B_drawConnectingLineFrom(n, i) == Pt(n.x + 100, n.y + 10 + (i * 15))

\* Graphs for the renderer: nodes with and without port lists, connections
\* between present and absent nodes, from ports that are and are not outputs.
FromPorts == {"out", "in"}

DAddConnection ==
    /\ host = "browser" /\ Len(Conns(Cur)) < MaxConns
    /\ \E id \in NewConnIds(Cur), e \in ConnEnds, fp \in FromPorts :
         Do(B_addConnection(Cur, id, e[1], fp, e[2], "in"))

DWebviewAddConnection ==
    /\ host = "vscode" /\ Len(Conns(Cur)) < MaxConns
    /\ \E id \in NewConnIds(Cur), e \in ConnEnds, fp \in FromPorts :
         Do(V_addConnection(Cur, id, e[1], fp, e[2], "in"))

RenderNext ==
    \/ BAddNode \/ BComponentSelected \/ BRemoveNode \/ DAddConnection
    \/ BLoadLiteral
    \/ VComponentSelected \/ RMouseDown \/ DWebviewAddConnection

Next == BrowserNext \/ VSCodeNext

-----------------------------------------------------------------------------
(* Specifications *)

Spec        == Init /\ [][Next]_vars
SpecPointer == InitBrowser /\ [][PointerNext]_vars
SpecPanel   == InitBrowser /\ [][PanelNext]_vars
SpecProject == InitBrowser /\ [][ProjectNext]_vars
SpecVSCode  == InitVSCode /\ [][VSCodeNext]_vars
SpecTools   == InitTools /\ [][ToolsNext]_vars
SpecRemove  == Init /\ [][RemoveNext]_vars
SpecIntelliJ == InitIntelliJ /\ [][IntelliJNext]_vars

\* The pointer on each of the three canvases, with the events that give it
\* nodes to work on.
GestureNext ==
    \/ PointerNext
    \/ VMouseDown \/ VMouseMove \/ VMouseUp \/ VKeyDown \/ VComponentSelected
    \/ IntelliJNext
SpecGesture == (InitBrowser \/ InitVSCode \/ InitIntelliJ) /\ [][GestureNext]_vars
SpecRender  == Init /\ [][RenderNext]_vars
SpecStorage == InitBrowser /\ [][StorageNext]_vars
SpecPanels  == InitPanels /\ [][PanelsNext]_vars
SpecLoad    == InitBrowser /\ [][LoadNext]_vars
SpecBackground == InitBrowser /\ [][BackgroundNext]_vars
SpecEvents  == InitVSCode /\ [][EventsNext]_vars
SpecKernel  == InitVSCode /\ [][KernelNext]_vars
SpecService == InitIntelliJ /\ [][ServiceNext]_vars

-----------------------------------------------------------------------------
(* What the properties below look at *)

\* The node sequence of the canvas as values: each node with its component.
NodeSeq(s) ==
    [i \in 1..Len(Nodes(s)) |->
        LET o == s.objs[Nodes(s)[i]]
        IN [id |-> o.id, x |-> o.x, y |-> o.y, component |-> s.comps[o.component]]]

Touches(c, id) == c.fromNode = id \/ c.toNode = id

-----------------------------------------------------------------------------
(* Removal of a node *)

\* The state t that a removal of the nodes of id `id` from state s must leave.
Removed(s, t, id) ==
    /\ \A i \in 1..Len(NodeSeq(t)) : NodeSeq(t)[i].id # id
    /\ \A i \in 1..Len(Conns(t)) : ~Touches(Conns(t)[i], id)
    /\ NodeSeq(t) = SelectSeq(NodeSeq(s), LAMBDA n : n.id # id)
    /\ Conns(t) = SelectSeq(Conns(s), LAMBDA c : ~Touches(c, id))
    /\ (s.selectedNode # 0 /\ s.objs[s.selectedNode].id = id) => t.selectedNode = 0

\* C1: after removeNode(id) on the browser canvas, and after the Delete key on
\* the VSCode canvas (id being the selected node's), no node has that id, no
\* connection starts or ends at that id, the other nodes and connections are
\* kept in their order, and the selection is null if the selected node had
\* that id.
C1_RemoveCascades ==
    [][ /\ \A id \in NodeIds :
             host = "browser" /\ Do(B_removeNode(Cur, id))
                => Removed(Cur, Cur', id)
        /\ host = "vscode" /\ selectedNode # 0 /\ Do(V_handleKeyDown(Cur, "Delete"))
                => Removed(Cur, Cur', objs[selectedNode].id) ]_vars

\* Three nodes and two connections, node-a selected: removeNode("node-a") takes
\* one node and one connection away and clears the selection.
C1_Witness ==
    /\ host = "browser"
    /\ Len(Nodes(Cur)) = 3 /\ Len(Conns(Cur)) = 2
    /\ selectedNode # 0 /\ objs[selectedNode].id = "node-a"
    /\ LET t == B_removeNode(Cur, "node-a")
       IN Len(Nodes(t)) = 2 /\ Len(Conns(t)) = 1 /\ t.selectedNode = 0

-----------------------------------------------------------------------------
(* References to nodes *)

Present(s, r) == r = 0 \/ r \in Range(Nodes(s))

\* C2: the selected node and the dragged node are each null or a node of the
\* node sequence, after every event; and a pointer move changes no node object
\* that is not in the node sequence.
C2_ReferencesPresent ==
    [][ /\ Present(Cur', selectedNode') /\ Present(Cur', draggedNode')
        /\ \A p \in BPoints :
             host = "browser" /\ Do(B_handleMouseMove(Cur, p))
                => \A r \in NodeRefs \ Range(Nodes(Cur)) : objs'[r] = objs[r] ]_vars

-----------------------------------------------------------------------------
(* Connections *)

\* The first node of the node sequence with the id, as a value; <<>> if none.
NodeOfId(s, id) ==
    LET hit == {i \in 1..Len(NodeSeq(s)) : NodeSeq(s)[i].id = id}
    IN IF hit = {} THEN <<>> ELSE <<NodeSeq(s)[Min(hit)]>>

\* C3: no connection joins two ports of one node: none has fromNode = toNode,
\* the node being in the graph with an input and an output list.
C3_NoSelfLoop ==
    \A i \in 1..Len(Conns(Cur)) :
        LET c == Conns(Cur)[i]
            n == NodeOfId(Cur, c.fromNode)
        IN (n # <<>> /\ HasPorts(n[1].component)) => c.fromNode # c.toNode

InputPortsAt(s, pos) ==
    UNION { LET n == s.objs[Nodes(s)[i]]
                c == s.comps[n.component]
            IN {<<n.id, c.inputs[j]>> :
                    j \in PortHits(n, c.inputs, n.x - V_PORT_DX, pos)}
            : i \in 1..Len(Nodes(s)) }
OutputPortsAt(s, pos) ==
    UNION { LET n == s.objs[Nodes(s)[i]]
                c == s.comps[n.component]
            IN {<<n.id, c.outputs[j]>> :
                    j \in PortHits(n, c.outputs, n.x + NODE_W + V_PORT_DX, pos)}
            : i \in 1..Len(Nodes(s)) }

\* A connection is in progress in s, begun on an output port.
ConnectingFromOutput(s) ==
    /\ s.host = "vscode" /\ s.isConnecting /\ s.connectingFrom # <<>>
    /\ LET a == NodeOfId(s, s.connectingFrom[1].nodeId)
       IN a # <<>> /\ s.connectingFrom[1].portId \in Range(a[1].component.outputs)

-----------------------------------------------------------------------------
(* Project documents *)

\* The canvas that getProjectData of s, then loadProjectData of the document
\* into a new Canvas, leaves.
CanvasRoundTrip(s) ==
    LET e == B_getProjectData(s)
        a == 3 - e.nodes
        b == 3 - e.connections
        f == [e EXCEPT !.nodes = a, !.connections = b,
                       !.arrN[a] = <<>>, !.arrC[b] = <<>>,
                       !.selectedNode = 0, !.isDragging = FALSE]
    IN B_loadProjectData(f, e.doc[1])

ConnEndpoints(s) ==
    {<<c.fromNode, c.fromPort, c.toNode, c.toPort>> : c \in Range(Conns(s))}

\* C7: a graph with nodes, exported and imported into a new canvas, comes
\* back with the same nodes (ids, positions, port lists, order) and the same
\* connection end points: by getProjectData and loadProjectData of the canvas,
\* and by exportProjectData of the IDE, which returns the document.
C7_RoundTrip ==
    Nodes(Cur) # <<>> /\ host = "browser" =>
        /\ NodeSeq(CanvasRoundTrip(Cur)) = NodeSeq(Cur)
        /\ ConnEndpoints(CanvasRoundTrip(Cur)) = ConnEndpoints(Cur)
        /\ I_exportProjectData(Cur).thrown = "none"

\* The nodes and the connections of a document: none where the field is missing.
NodesOfDoc(L) == IF L.nodes = <<>> THEN <<>> ELSE L.nodes[1]
ConnsOfDoc(L) == IF L.connections = <<>> THEN <<>> ELSE L.connections[1]

\* C8: importing a document into a canvas that holds nodes (loadProjectData
\* of the canvas, importProjectData of the IDE) leaves the canvas holding the
\* nodes and the connections of the document, none where the document lacks
\* the field, and nothing of the graph that was open before.
C8_ImportReplaces ==
    Nodes(Cur) # <<>> /\ host = "browser" =>
        \A L \in LitDocs :
            /\ CanMaterialise(Cur, L) =>
                 LET t == B_loadLiteral(Cur, L)
                 IN NodeSeq(t) = NodesOfDoc(L) /\ Conns(t) = ConnsOfDoc(L)
            /\ LET u == I_importProjectData(Cur, L)
               IN /\ u.thrown = "none"
                  /\ NodeSeq(u) = NodesOfDoc(L) /\ Conns(u) = ConnsOfDoc(L)

-----------------------------------------------------------------------------
(* Port lists *)

\* C9: every node of the graph has an input port list and an output port list.
C9_NodesCarryPorts ==
    \A i \in 1..Len(NodeSeq(Cur)) : HasPorts(NodeSeq(Cur)[i].component)

\* The id and the port lists of every node of the graph, in order.
PortsAndIds(s) ==
    [i \in 1..Len(NodeSeq(s)) |->
        LET n == NodeSeq(s)[i]
        IN [id |-> n.id,
            inputs |-> IF "inputs" \in n.component.has
                       THEN <<n.component.inputs>> ELSE <<>>,
            outputs |-> IF "outputs" \in n.component.has
                        THEN <<n.component.outputs>> ELSE <<>>]]

\* C10: no event changes the id or a port list of a node: an event leaves the
\* ids and port lists of the graph's nodes as they are, or with one added at
\* the end, or with those of one id taken out.
C10_PortsAndIdFixed ==
    [][ LET pre  == PortsAndIds(Cur)
            post == PortsAndIds(Cur')
        IN \/ post = pre
           \/ Len(post) = Len(pre) + 1 /\ SubSeq(post, 1, Len(pre)) = pre
           \/ \E id \in NodeIds : post = SelectSeq(pre, LAMBDA n : n.id # id) ]_vars

-----------------------------------------------------------------------------
(* Templates *)

\* The positions of the node sequence at which the name or the color differs
\* between s and t, the two holding the same ids in the same order.
Restyled(s, t) ==
    {i \in 1..Len(NodeSeq(s)) :
        \/ NodeSeq(t)[i].component.name # NodeSeq(s)[i].component.name
        \/ NodeSeq(t)[i].component.color # NodeSeq(s)[i].component.color}

SameIds(s, t) ==
    /\ Len(NodeSeq(s)) = Len(NodeSeq(t))
    /\ \A i \in 1..Len(NodeSeq(s)) : NodeSeq(s)[i].id = NodeSeq(t)[i].id

\* C11: an event that changes the name or the color of one node changes the
\* name and the color of no other node of the graph, nodes made from the same
\* template included.
C11_RenameIsLocal ==
    [][ SameIds(Cur, Cur') => Cardinality(Restyled(Cur, Cur')) <= 1 ]_vars

\* The fields of a catalog entry.
Template(c) ==
    [id |-> c.id, name |-> c.name, type |-> c.type,
     category |-> c.category, color |-> c.color]

\* C12: the entries of the component panel's catalog are what
\* loadComponents made them, in every state.
C12_CatalogFixed ==
    host = "browser" =>
        \A k \in 1..CatalogSize : Template(comps[k]) = Template(ComponentLibrary[k])

-----------------------------------------------------------------------------
(* Exceptions *)

\* Every node of the graph carries both port lists.
WellTyped(s) ==
    \A i \in 1..Len(NodeSeq(s)) : HasPorts(NodeSeq(s)[i].component)

\* C13: no event applied to a well-typed graph ends in an exception: the
\* handler that led to a state whose graph is well typed has raised nothing.
C13_NoException ==
    WellTyped(Cur) => thrown = "none"

-----------------------------------------------------------------------------
(* The interaction state machine *)

Idle(s) ==
    /\ s.draggedNode = 0 /\ ~s.isDragging
    /\ ~s.isConnecting /\ s.connectingFrom = <<>>

-----------------------------------------------------------------------------
(* Dragging *)

\* The node a pointer-move moves: the browser canvas drags its selected node
\* while isDragging, the VSCode canvas its draggedNode, the IntelliJ panel its
\* draggingNode while dragOffset is set.  0: no drag.
DragOf(s) ==
    CASE s.host = "browser" -> IF s.isDragging THEN s.selectedNode ELSE 0
      [] s.host = "vscode"  -> s.draggedNode
      [] OTHER              -> IF s.isDragging THEN s.draggedNode ELSE 0

\* The pointer-down and the pointer-move of the canvas at hand, at point p.
Down(s, p) ==
    CASE s.host = "browser" -> B_handleMouseDown(s, p)
      [] s.host = "vscode"  -> V_handleMouseDown(s, p, "node-c")
      [] OTHER              -> J_mousePressed(s, p)
Move(s, p) ==
    CASE s.host = "browser" -> B_handleMouseMove(s, p)
      [] s.host = "vscode"  -> V_handleMouseMove(s, p)
      [] OTHER              -> J_mouseDragged(s, p)
NodeAt(s, p) ==
    IF s.host = "intellij" THEN J_findNodeAt(s, p) ELSE getNodeAtPosition(s, p)
PointsOf(s) ==
    CASE s.host = "browser" -> BPoints
      [] s.host = "vscode"  -> VPoints
      [] OTHER              -> JPoints

\* No placement is pending: a pointer-down selects and grabs.
Selecting(s) ==
    CASE s.host = "browser" -> TRUE
      [] s.host = "vscode"  -> s.selectedTool = "select"
      [] OTHER              -> s.selectedComponent = 0

\* t is s with node object d at (px, py) and no other node object, and no
\* connection, changed.
MovedTo(s, t, d, px, py) ==
    /\ t.objs[d] = [s.objs[d] EXCEPT !.x = px, !.y = py]
    /\ \A r \in NodeRefs \ {d} : t.objs[r] = s.objs[r]
    /\ Nodes(t) = Nodes(s) /\ Conns(t) = Conns(s)

\* The step is a pointer-down.
IsDown ==
    \E p \in PointsOf(Cur) :
        \/ host = "browser" /\ Do(B_handleMouseDown(Cur, p))
        \/ host = "vscode" /\ \E id \in NodeIds : Do(V_handleMouseDown(Cur, p, id))
        \/ host = "intellij" /\ Do(J_mousePressed(Cur, p))

\* C16: a pointer-down on a node grabs it at offset o = cursor - position;
\* while the drag lasts, that node and that offset stay the ones of the drag,
\* and every pointer-move to cursor c sets that node's position to c - o,
\* unclamped, and changes no other node's position and no connection.
C16_DragFollowsCursor ==
    [][ /\ \A p \in PointsOf(Cur) :
            LET n == NodeAt(Cur, p)
                t == Down(Cur, p)
            IN (Selecting(Cur) /\ n # 0) =>
                  /\ DragOf(t) = n
                  /\ t.dragOffset = Pt(p.x - objs[n].x, p.y - objs[n].y)
        /\ \A p \in PointsOf(Cur) :
            DragOf(Cur) # 0 =>
                MovedTo(Cur, Move(Cur, p), DragOf(Cur),
                        p.x - dragOffset.x, p.y - dragOffset.y)
        /\ (DragOf(Cur) # 0 /\ DragOf(Cur') # 0 /\ ~IsDown) =>
                /\ objs'[DragOf(Cur')].id = objs[DragOf(Cur)].id
                /\ dragOffset' = dragOffset ]_vars

-----------------------------------------------------------------------------
(* The empty canvas *)

\* What a pointer-down or a click at p leaves: the browser canvas has a
\* mousedown and a click listener, the other two a pointer-down only.
Presses(s, p) ==
    CASE s.host = "browser" -> {B_handleMouseDown(s, p), B_handleClick(s, p)}
      [] s.host = "vscode"  -> {V_handleMouseDown(s, p, "node-c")}
      [] OTHER              -> {J_mousePressed(s, p)}

\* The graph and the connect state of t are those of s.
SameGraph(s, t) ==
    /\ NodeSeq(t) = NodeSeq(s) /\ Conns(t) = Conns(s)
    /\ t.isConnecting = s.isConnecting /\ t.connectingFrom = s.connectingFrom
    /\ t.isDragging = s.isDragging /\ t.dragOffset = s.dragOffset

\* C17 as claimed: with no placement pending, a pointer-down or click at a
\* point where no node lies changes neither the nodes, nor the connections,
\* nor the selection, nor the interaction state.
C17_EmptyClickChangesNothing ==
    \A p \in PointsOf(Cur) :
        (Selecting(Cur) /\ NodeAt(Cur, p) = 0) =>
            \A t \in Presses(Cur, p) :
                /\ SameGraph(Cur, t)
                /\ t.selectedNode = selectedNode
                /\ t.draggedNode = draggedNode

\* C17 as amended: with no placement pending, a pointer-down or click at a
\* point where no node lies changes no node and no connection and starts no
\* drag and no connection; the selection (and the node the IntelliJ panel
\* drags) stays as it is or becomes null.
C17_EmptyClickDeselects ==
    \A p \in PointsOf(Cur) :
        (Selecting(Cur) /\ NodeAt(Cur, p) = 0) =>
            \A t \in Presses(Cur, p) :
                /\ SameGraph(Cur, t)
                /\ t.selectedNode \in {0, selectedNode}
                /\ t.draggedNode \in {0, draggedNode}

\* A node is selected, no node lies at a point, and the click there clears
\* the selection.
C17_Witness ==
    /\ host = "browser" /\ selectedNode # 0 /\ ~isDragging
    /\ \E p \in BPoints :
         /\ getNodeAtPosition(Cur, p) = 0
         /\ B_handleClick(Cur, p).selectedNode = 0
         /\ NodeSeq(B_handleClick(Cur, p)) = NodeSeq(Cur)

-----------------------------------------------------------------------------
(* Placing a node *)

\* A catalog selection is pending: the next pointer-down places a node.
Placing(s) ==
    CASE s.host = "vscode"   -> s.selectedTool = "addComponent" /\ s.selectedComponent # 0
      [] s.host = "intellij" -> s.selectedComponent # 0
      [] OTHER               -> FALSE

\* t is s with one node of the selected template appended at p, centred on
\* the cursor, and nothing else of the graph or the gesture changed.
Appended(s, t, p) ==
    LET n  == Len(Nodes(s)) + 1
        hw == IF s.host = "intellij" THEN J_NODE_WIDTH \div 2 ELSE NODE_W \div 2
        hh == IF s.host = "intellij" THEN J_NODE_HEIGHT \div 2 ELSE NODE_H \div 2
    IN /\ Len(Nodes(t)) = n
       /\ SubSeq(NodeSeq(t), 1, n - 1) = NodeSeq(s)
       /\ Conns(t) = Conns(s)
       /\ NodeSeq(t)[n].x = p.x - hw /\ NodeSeq(t)[n].y = p.y - hh
       /\ NodeSeq(t)[n].component.name = s.comps[s.selectedComponent].name
       /\ NodeSeq(t)[n].component.type = s.comps[s.selectedComponent].type
       /\ t.isDragging = s.isDragging /\ t.draggedNode = s.draggedNode
       /\ t.isConnecting = s.isConnecting

\* What a pointer-down at p leaves, for each id the new node can get.
Placements(s, p) ==
    IF s.host = "vscode"
    THEN {V_handleMouseDown(s, p, id) : id \in NewNodeIds(s)}
    ELSE {J_mousePressed(s, p)}

\* C18: a pointer-down while a catalog selection is pending appends exactly
\* one node of the selected template at the end of the node sequence, leaves
\* the other nodes and the connections as they are, starts no drag, and
\* makes the new node the selected node.
C18_PlacementAppendsAndSelects ==
    \A p \in PointsOf(Cur) :
        (Placing(Cur) /\ Len(Nodes(Cur)) < MaxGraph) =>
            \A t \in Placements(Cur, p) :
                /\ Appended(Cur, t, p)
                /\ t.selectedNode = Nodes(t)[Len(Nodes(t))]

-----------------------------------------------------------------------------
(* The renderer *)

\* Both endpoints of c are nodes of the node sequence, and its ports are an
\* output of the one and an input of the other.
Resolved(s, c) ==
    LET f == findNode(s, c.fromNode)
        t == findNode(s, c.toNode)
    IN /\ f # 0 /\ t # 0
       /\ c.fromPort \in Range(CompOf(s, f).outputs)
       /\ c.toPort \in Range(CompOf(s, t).inputs)

\* C19: the renderer draws a line for a connection exactly if both its
\* endpoints are nodes of the node sequence and its ports are in their port
\* lists; every other connection is skipped without raising, and stays in
\* the connection sequence.
C19_DrawnIffResolved ==
    LET d == drawConnections(Cur)
    IN /\ \A i \in 1..Len(Conns(Cur)) : i \in d.lines <=> Resolved(Cur, Conns(Cur)[i])
       /\ ~d.raised
       /\ Conns(draw(Cur)) = Conns(Cur)

-----------------------------------------------------------------------------
(* The exported document *)

\* The nodes and the connections of the document the state holds.
DocNodeSeq(t) ==
    LET q == t.arrN[t.doc[1].nodes]
    IN [i \in 1..Len(q) |->
          [id |-> t.objs[q[i]].id, component |-> t.comps[t.objs[q[i]].component]]]
DocConnSeq(t) == t.arrC[t.doc[1].connections]

\* Connection c of a document ends at nodes of the document, at ports they have.
EndsInDoc(t, c) ==
    /\ \E i \in 1..Len(DocNodeSeq(t)) :
         /\ DocNodeSeq(t)[i].id = c.fromNode
         /\ c.fromPort \in Range(DocNodeSeq(t)[i].component.outputs)
    /\ \E i \in 1..Len(DocNodeSeq(t)) :
         /\ DocNodeSeq(t)[i].id = c.toNode
         /\ c.toPort \in Range(DocNodeSeq(t)[i].component.inputs)

\* C20: the document getProjectData returns holds no dangling connection:
\* every connection of it runs from an output of a node of the document to
\* an input of a node of the document.
C20_ExportHasNoDangling ==
    host = "browser" =>
        LET t == B_getProjectData(Cur)
        IN \A i \in 1..Len(DocConnSeq(t)) : EndsInDoc(t, DocConnSeq(t)[i])

-----------------------------------------------------------------------------
(* Hit tests *)

\* The points on, and one unit outside, the corners of the boxes of the
\* nodes of the graph, w wide and h high.
Probes(s, w, h) ==
    UNION { { Pt(s.objs[r].x + dx, s.objs[r].y + dy) :
                dx \in {-1, 0, w, w + 1}, dy \in {-1, 0, h, h + 1} } :
            r \in Range(Nodes(s)) }

\* The box of node object r, w wide and h high, edges included, holds p.
Inside(s, r, p, w, h) ==
    /\ s.objs[r].x <= p.x /\ p.x <= s.objs[r].x + w
    /\ s.objs[r].y <= p.y /\ p.y <= s.objs[r].y + h

\* r is what a hit test at p has to return: the node of lowest index whose
\* box holds p, none (0) when no box holds p.
FirstHit(s, r, p, w, h) ==
    LET q == Nodes(s)
    IN IF \E i \in 1..Len(q) : Inside(s, q[i], p, w, h)
       THEN \E i \in 1..Len(q) :
              /\ q[i] = r /\ Inside(s, r, p, w, h)
              /\ \A j \in 1..(i - 1) : ~Inside(s, q[j], p, w, h)
       ELSE r = 0

\* C21: the node hit test returns the node of lowest index whose box holds
\* the point, the four edges included (100 x 50 in the browser and the VSCode
\* canvas, NODE_WIDTH x NODE_HEIGHT in the IntelliJ panel), and none when no
\* box holds it.
C21_HitTestFirstInclusive ==
    IF host = "intellij"
    THEN \A p \in Probes(Cur, J_NODE_WIDTH, J_NODE_HEIGHT) \cup JPoints :
            FirstHit(Cur, J_findNodeAt(Cur, p), p, J_NODE_WIDTH, J_NODE_HEIGHT)
    ELSE \A p \in Probes(Cur, 100, 50) \cup {Pt(150, 120), Pt(250, 120)} :
            FirstHit(Cur, getNodeAtPosition(Cur, p), p, 100, 50)

\* Two nodes overlap without lying on each other, and the bottom right
\* corner of the first, which is inside the second, hits the first.
C21_Witness ==
    /\ host # "intellij" /\ Len(Nodes(Cur)) = 2
    /\ LET a == Nodes(Cur)[1]
           b == Nodes(Cur)[2]
           p == Pt(objs[a].x + 100, objs[a].y + 50)
       IN /\ <<objs[a].x, objs[a].y>> # <<objs[b].x, objs[b].y>>
          /\ Inside(Cur, b, p, 100, 50)
          /\ getNodeAtPosition(Cur, p) = a
          /\ getNodeAtPosition(Cur, Pt(p.x + 1, p.y)) = b


\* The ports of the graph in the order of the scan: node by node, the inputs
\* of a node before its outputs, each list in its order.  side 0 is input.
PortSlots(s) ==
    {<<i, side, j>> \in (1..Len(Nodes(s))) \X {0, 1} \X (1..2) :
        j <= Len(IF side = 0 THEN CompOf(s, Nodes(s)[i]).inputs
                 ELSE CompOf(s, Nodes(s)[i]).outputs)}

Before(a, b) ==
    \/ a[1] < b[1]
    \/ a[1] = b[1] /\ a[2] < b[2]
    \/ a[1] = b[1] /\ a[2] = b[2] /\ a[3] < b[3]

\* Port a is drawn within 5 units of p on both axes: inputs 10 left of the
\* box, outputs 10 right of it, port j at height 15 + 20 * (j - 1).
Near(s, a, p) ==
    LET n  == s.objs[Nodes(s)[a[1]]]
        px == IF a[2] = 0 THEN n.x - 10 ELSE n.x + 110
        py == n.y + 15 + 20 * (a[3] - 1)
    IN Abs(p.x - px) <= 5 /\ Abs(p.y - py) <= 5

PortName(s, a) ==
    LET c == CompOf(s, Nodes(s)[a[1]])
    IN IF a[2] = 0 THEN c.inputs[a[3]] ELSE c.outputs[a[3]]

\* r is what the port hit test at p has to return.
FirstPort(s, r, p) ==
    IF \E a \in PortSlots(s) : Near(s, a, p)
    THEN \E a \in PortSlots(s) :
           /\ Near(s, a, p)
           /\ \A b \in PortSlots(s) : Before(b, a) => ~Near(s, b, p)
           /\ r = Port(s.objs[Nodes(s)[a[1]]].id, PortName(s, a))
    ELSE r = NullPort

\* Points at, on the rim of, and just outside the reach of the first two
\* port places on either side of every node.
PortProbes(s) ==
    UNION { { Pt(s.objs[r].x + ox + dx, s.objs[r].y + oy + dy) :
                ox \in {-10, 110}, oy \in {15, 35},
                dx \in {-6, -5, 0, 5, 6}, dy \in {-6, 0, 5} } :
            r \in Range(Nodes(s)) }

\* C22: getPortAtPosition returns the first port, in the order of the scan
\* (node by node, inputs before outputs, each list in its order), that lies
\* within 5 units of the point on both axes, and none when no port does.
C22_PortHitTestFirst ==
    host = "vscode" =>
        \A p \in PortProbes(Cur) \cup VPoints :
            FirstPort(Cur, getPortAtPosition(Cur, p), p)

-----------------------------------------------------------------------------
(* Node ids *)

\* C23: no two nodes of the graph have the same id, on any of the three
\* canvases, after any sequence of placements.
C23_UniqueIds ==
    \A i, j \in 1..Len(Nodes(Cur)) :
        i # j => objs[Nodes(Cur)[i]].id # objs[Nodes(Cur)[j]].id

-----------------------------------------------------------------------------
(* The exported document as a snapshot *)

\* What the document the state holds says: its nodes and its connections.
DocContent(t) ==
    [nodes |-> LET q == t.arrN[t.doc[1].nodes]
               IN [i \in 1..Len(q) |->
                     [id |-> t.objs[q[i]].id, x |-> t.objs[q[i]].x, y |-> t.objs[q[i]].y,
                      component |-> t.comps[t.objs[q[i]].component]]],
     connections |-> t.arrC[t.doc[1].connections]]

\* The graph operations on state e: addConnection, removeNode, a drag of the
\* node at p, and addNode while there is room for a node.
GraphOps(e) ==
    {B_addConnection(e, "conn-b", "node-a", "out", "node-a", "in")}
    \cup {B_removeNode(e, id) : id \in NodeIds}
    \cup {B_handleMouseMove(B_handleMouseDown(e, p), q) : p, q \in BPoints}
    \cup (IF Cardinality(LiveNodes(e)) < MaxGraph /\ FreeComps(e) # {}
          THEN LET cr == Min(FreeComps(e))
               IN {B_addNode([e EXCEPT !.comps[cr] = DefaultComponents[1]],
                             cr, IDE_DROP_X, IDE_DROP_Y, "node-c")}
          ELSE {})

\* C24: getProjectData leaves the graph as it is, and the document it
\* returned says the same after any graph operation that follows.
C24_ExportIsSnapshot ==
    host = "browser" =>
        LET e == B_getProjectData(Cur)
        IN /\ NodeSeq(e) = NodeSeq(Cur) /\ Conns(e) = Conns(Cur)
           /\ \A t \in GraphOps(e) : DocContent(t) = DocContent(e)

-----------------------------------------------------------------------------
(* Saving and loading through the background script *)

\* C25: after the IDE's save of a graph with nodes (an active tab being
\* there), chrome.storage holds a document, and a load that follows, whatever
\* was done to the graph in between, brings the saved nodes and connections
\* back.
C25_SaveThenLoad ==
    (host = "browser" /\ Nodes(Cur) # <<>>) =>
        LET a == I_saveProject(Cur, TRUE)
        IN /\ a.thrown = "none"
           /\ a.storage # <<>>
           /\ \A e \in GraphOps(a) \cup {a} :
                LET b == I_loadProject(e, TRUE)
                IN /\ NodeSeq(b) = NodeSeq(Cur) /\ Conns(b) = Conns(Cur)
                   /\ b.notice = "success"

-----------------------------------------------------------------------------
(* The property panel of the VSCode extension *)

\* The panel holds the node the canvas has selected, or none if none is.
PanelAgrees(s) ==
    IF s.selectedNode = 0 THEN s.vpanel = <<>>
    ELSE s.vpanel # <<>> /\ s.vpanel[1].id = s.objs[s.selectedNode].id

\* C26: once the node-selected messages are delivered, the property panel
\* holds the node with the id of the canvas's selected node, or no node when
\* the canvas has none selected.
C26_PanelFollowsSelection ==
    (host = "vscode" /\ panelView /\ toPanel = <<>>) => PanelAgrees(Cur)

\* C27: when the property panel changes an editable property of its node
\* and the canvas has handled the property-changed message, the canvas node
\* of that id has the new value, and panel and canvas agree on the name, the
\* colour and the position of the node.
C27_PanelEditReachesCanvas ==
    (host = "vscode" /\ vpanel # <<>> /\ toCanvas = <<>>
        /\ findNode(Cur, vpanel[1].id) # 0) =>
        \A e \in PanelEdits :
            LET t == V_receive(VP_handlePropertyChange(Cur, e[1], e[2]))
                n == NodeValue(t, findNode(t, vpanel[1].id))
                v == t.vpanel[1]
            IN /\ n.component.name = v.component.name
               /\ n.component.color = v.component.color
               /\ n.x = v.x /\ n.y = v.y


\* C28: whenever a kernel process spawned by startOsland is running, the
\* oslandProcess handle refers to it, and once stopOsland has returned no
\* spawned kernel process is running.
C28_HandleTracksKernel ==
    host = "vscode" =>
        /\ \A p \in DOMAIN procs : procs[p] = "running" => oslandProcess = p
        /\ LET t == T_stopOsland(Cur) IN \A p \in DOMAIN t.procs : ~Running(t, p)

\* The part of C28 that the code keeps: the handle never refers to a process
\* whose 'exit' event was delivered, and stopOsland always leaves it null.
C28_HandleNeverReaped ==
    host = "vscode" =>
        /\ oslandProcess # 0 => procs[oslandProcess] \notin {"reaped", "killed"}
        /\ T_stopOsland(Cur).oslandProcess = 0

\* The 'exit' event of a stopped kernel arrives after the next one was started.
C28_RestartRace ==
    /\ host = "vscode" /\ oslandProcess = 0
    /\ \E p, q \in DOMAIN procs : p < q /\ procs[p] = "reaped" /\ procs[q] = "running"

\* C29: sendCommand is rejected with 'OSland process is not running' and
\* writes nothing whenever no kernel process is running, and it resolves only
\* when the command line was written to the stdin of a running kernel.
C29_SendNeedsRunningKernel ==
    host = "vscode" =>
        \A c \in Commands :
            LET t == T_sendCommand(Cur, c)
                none == \A p \in DOMAIN procs : procs[p] # "running"
            IN  /\ none => /\ t.reply = "OSland process is not running"
                           /\ t.stdin = stdin
                /\ t.reply = "Command executed successfully" =>
                       /\ oslandProcess # 0 /\ Running(Cur, oslandProcess)
                       /\ t.stdin = Append(stdin, [proc |-> oslandProcess, line |-> c \o "\n"])

\* The part of C29 that the code keeps: with a null handle the command is
\* rejected, and a line is written only to a running kernel, the one the
\* handle refers to.
C29_NullHandleRejects ==
    host = "vscode" =>
        \A c \in Commands :
            LET t == T_sendCommand(Cur, c)
            IN  /\ oslandProcess = 0 =>
                       t.reply = "OSland process is not running" /\ t.stdin = stdin
                /\ t.stdin # stdin =>
                       /\ Running(Cur, oslandProcess)
                       /\ t.stdin = Append(stdin, [proc |-> oslandProcess, line |-> c \o "\n"])
                /\ \A i \in DOMAIN stdin : stdin[i].line \in {c2 \o "\n" : c2 \in Commands}

\* A command was written to a running kernel.
C29_Written == host = "vscode" /\ stdin # <<>> /\ reply = "Command executed successfully"

-----------------------------------------------------------------------------
(* Failing loads and saves of the browser IDE *)

\* C31: when a load_project request fails (the background script answers
\* success: false), the IDE's nodes, connections and project name are left
\* unchanged.
C31_FailedLoadChangesNothing ==
    host = "browser" =>
        \A tab \in BOOLEAN :
            LET r == bg_loadProject(Begin(Cur), tab)
                t == I_loadProject(Cur, tab)
            IN  ~r.success =>
                    /\ NodeSeq(t) = NodeSeq(Cur) /\ Conns(t) = Conns(Cur)
                    /\ t.projectName = projectName

\* The part of C31 that the code keeps: the graph survives a failed load.
C31_FailedLoadKeepsGraph ==
    host = "browser" =>
        \A tab \in BOOLEAN :
            LET r == bg_loadProject(Begin(Cur), tab)
                t == I_loadProject(Cur, tab)
            IN  ~r.success => NodeSeq(t) = NodeSeq(Cur) /\ Conns(t) = Conns(Cur)

\* A named project with a graph, nothing stored.
C31_NamedProject ==
    /\ host = "browser" /\ projectName \in ProjectNames
    /\ Nodes(Cur) # <<>> /\ storage = <<>>

\* C32: 'Project saved successfully!' is shown only when the document was
\* written to storage, and when the background script answers the
\* save_project request with success: false the IDE reports a failure.
C32_SaveReportsOutcome ==
    host = "browser" =>
        \A tab \in BOOLEAN :
            LET r == bg_saveProject(Begin(Cur), tab)
                t == I_saveProject(Cur, tab)
            IN  /\ (t.notice = "success" /\ notice # "success") => t.storage # <<>>
                /\ ~r.success => t.notice = "error"

\* What the try block of saveProject does with the answer: success is shown
\* although nothing was stored.
C32_SuccessWithoutStorage ==
    host = "browser" =>
        \A tab \in BOOLEAN :
            LET t == I_sendSaveProject(Begin(Cur), tab)
            IN t.notice = "success" /\ t.storage = <<>>

-----------------------------------------------------------------------------
(* The background script of the browser extension *)

\* The replies a tab may give to get_project_data: the content script's, and
\* one that carries a project document.
TabReplies ==
    {ContentReply("get_project_data"),
     [status |-> "success", projectData |-> <<[name |-> "Kernel A"]>>]}

\* C33: the background listener answers every request exactly once, and a
\* message of an unknown type with 'Unknown message type'.
C33_AnsweredExactlyOnce ==
    host = "browser" =>
        \A type \in BgMessages, tab \in BOOLEAN, load \in KernelLoads, r \in TabReplies :
            LET t == bg_onMessage(Cur, type, tab, load, r)
            IN  /\ Len(t.answers) = 1
                /\ type = "get_project_data" => t.answers = <<"Unknown message type">>

\* The part of C33 that the code keeps: exactly one answer whenever loading
\* the kernel does not raise, and never more than one.
C33_OnceUnlessLoadFails ==
    host = "browser" =>
        \A type \in BgMessages, tab \in BOOLEAN, load \in KernelLoads, r \in TabReplies :
            LET t == bg_onMessage(Cur, type, tab, load, r)
            IN  /\ Len(t.answers) <= 1
                /\ (load = "ok" \/ oslandKernel # "null"
                      \/ type \notin {"initialize_osland", "run_project", "build_project"})
                     => Len(t.answers) = 1
                /\ type = "get_project_data" => t.answers = <<"Unknown message type">>

Count(q, x) == Cardinality({i \in DOMAIN q : q[i] = x})

\* C34: over any sequence of initialize_osland, run_project and build_project
\* messages the kernel is constructed and initialized at most once, and
\* oslandKernel.run / build are never invoked while oslandKernel is null.
C34_KernelBuiltOnce ==
    host = "browser" =>
        /\ Count(kernelLog, "new") <= 1 /\ Count(kernelLog, "initialize") <= 1
        /\ (oslandKernel = "null") = (Count(kernelLog, "new") = 0)
        /\ \A type \in BgMessages, tab \in BOOLEAN, load \in KernelLoads, r \in TabReplies :
              LET t == bg_onMessage(Cur, type, tab, load, r)
              IN  /\ Count(t.kernelLog, "new") <= 1
                  /\ Count(t.kernelLog, "initialize") <= 1
                  /\ \A i \in DOMAIN t.kernelLog :
                        t.kernelLog[i] \in {"run", "build"} =>
                            \E j \in 1..(i - 1) : t.kernelLog[j] = "new"
                  /\ (Len(t.kernelLog) > Len(kernelLog)
                        /\ t.kernelLog[Len(t.kernelLog)] \in {"run", "build"})
                       => t.oslandKernel # "null"

\* The kernel was initialized by one message and a later initialize_osland
\* found it there.
C34_Witness ==
    /\ host = "browser" /\ oslandKernel = "initialized"
    /\ kernelLog = <<"new", "initialize">>
    /\ answers = <<"OSland kernel already initialized">>

-----------------------------------------------------------------------------
(* The tools of the VSCode canvas under its events *)

C36_PointerDownAdds ==
    (host = "vscode" /\ selectedTool = "addComponent") =>
        /\ selectedComponent # 0
        /\ Len(Nodes(Cur)) < MaxGraph =>
              \A p \in VPoints : \A t \in Placements(Cur, p) :
                  /\ Len(Nodes(t)) = Len(Nodes(Cur)) + 1
                  /\ SubSeq(Nodes(t), 1, Len(Nodes(Cur))) = Nodes(Cur)
                  /\ t.selectedNode = Nodes(t)[Len(Nodes(t))]
                  /\ t.draggedNode = 0
                  /\ t.selectedTool = "addComponent"

-----------------------------------------------------------------------------
(* The position of a port *)

MaxPortIndex == 2

\* A port list long enough to have a port of index i (from 0).
PortList(i) == [k \in 1..(i + 1) |-> "p"]

\* The port indices (from 1) of a list of i + 1 ports of node n on the given
\* side that getPortAtPosition finds within its tolerance of pos.
HitIndices(n, side, i, pos) ==
    PortHits(n, PortList(i),
             IF side = "input" THEN n.x - V_PORT_DX ELSE n.x + NODE_W + V_PORT_DX, pos)

\* C37: within each canvas, the hit test, the port marker, the connection
\* end points and the rubber-band origin use one position for a port: in the
\* VSCode canvas inputs at (x - 10, y + 15 + 20 i) and outputs at
\* (x + 110, y + 15 + 20 i), in the browser canvas inputs at
\* (x, y + 10 + 15 i) and outputs at (x + 100, y + 10 + 15 i).
C37_OnePortPosition ==
    \A k \in DOMAIN Nodes(Cur) : \A i \in 0..MaxPortIndex :
        LET n == objs[Nodes(Cur)[k]]
        IN  /\ host = "vscode" =>
                /\ V_drawNodePort(n, "input", i) = Pt(n.x - 10, n.y + 15 + 20 * i)
                /\ V_drawNodePort(n, "output", i) = Pt(n.x + 110, n.y + 15 + 20 * i)
                /\ \A side \in {"input", "output"} :
                      /\ V_drawConnectionsEnd(n, side, i) = V_drawNodePort(n, side, i)
                      /\ (i + 1) \in HitIndices(n, side, i, V_drawNodePort(n, side, i))
                      /\ \A d \in {PORT_TOLERANCE, PORT_TOLERANCE + 1} :
                            LET pos == Pt(V_drawNodePort(n, side, i).x + d,
                                          V_drawNodePort(n, side, i).y - d)
                            IN ((i + 1) \in HitIndices(n, side, i, pos)) = (d = PORT_TOLERANCE)
                /\ V_drawConnectingLineFrom(n, i) = V_drawNodePort(n, "output", i)
            /\ host = "browser" =>
                /\ B_drawNodePort(n, "input", i) = Pt(n.x, n.y + 10 + 15 * i)
                /\ B_drawNodePort(n, "output", i) = Pt(n.x + 100, n.y + 10 + 15 * i)
                /\ \A side \in {"input", "output"} :
                      B_drawConnectionsEnd(n, side, i) = B_drawNodePort(n, side, i)
                /\ B_drawConnectingLineFrom(n, i) = B_drawNodePort(n, "output", i)

\* Two nodes of the VSCode canvas, one of them dragged away from where it
\* was placed.
C37_Witness ==
    /\ host = "vscode" /\ Len(Nodes(Cur)) >= 2
    /\ \E k \in DOMAIN Nodes(Cur) :
          objs[Nodes(Cur)[k]].x # 0 /\ objs[Nodes(Cur)[k]].y # 0

-----------------------------------------------------------------------------
(* Connection ids *)

\* C38: every connection of the graph has an id distinct from the id of every
\* other connection, whenever and in whatever order they were created.
C38_UniqueConnectionIds ==
    \A i, j \in 1..Len(Conns(Cur)) :
        i # j => Conns(Cur)[i].id # Conns(Cur)[j].id
=============================================================================
